---- MODULE Spec2Model ----
(***************************************************************************)
(* Doom While AI Works: the activity aggregator of extension.ts and the    *)
(* three AI-state detectors (CursorDetector, VSCodeCopilotDetector,        *)
(* AntigravityDetector) as timed state machines.                           *)
(*                                                                         *)
(* Time is discrete.  One Tick is HEARTBEAT_MS milliseconds, the period of *)
(* every poll and heartbeat interval of the program.  A timer is <<>>      *)
(* (the field holds null) or <<r>>, r the milliseconds left before its     *)
(* callback is due.  A due callback runs before time advances further.     *)
(* A timestamp field (Date.now() stored in a field) is kept as its age,    *)
(* now - field, saturated at the largest value any comparison reads.       *)
(*                                                                         *)
(* ev names the handler that ran last, calls lists the outward calls it    *)
(* made (doomController.start/stop, the detector's registered callbacks).  *)
(***************************************************************************)
EXTENDS Integers, Sequences, FiniteSets, TLC

VARIABLES
    ev,             \* the handler that ran in the last step
    calls,          \* the outward calls made by that handler, in order
    obs,            \* what that handler found in the file it watches
    \* ---- extension.ts
    isThinking,     \* let isThinking
    isAIEnabled,    \* let isAIEnabled
    activityTimer,  \* let activityTimer: null or the handle of the last timeout armed
    timeouts,       \* the event loop's live timeouts armed by handleActivity
    togglePending,  \* toggleAI handlers suspended at their await
    sincePulse,     \* time since the detector last invoked the start callback
    steady,         \* the detector is one that pulses at least once per period
    lastCommand,    \* the last call made on the DoomController, "none" before the first
    \* ---- detectors/CursorDetector.ts
    cursor,         \* the detector's fields and its live timers
    stateFile,      \* the sentinel file: its content, or Absent
    mtimeChanged,   \* the file was modified since fs.watchFile last polled it
    sinceStopObs,   \* time since the first Stop-class content read after a Start
    sinceStartCb,   \* time since a detector last invoked the start callback
    \* ---- the log file tailed by the log detectors
    logFile,        \* its bytes, or Absent
    handed,         \* per byte of logFile: how often it was handed to the parser
    \* ---- detectors/VSCodeCopilotDetector.ts
    copilot,        \* the detector's fields and its live poll intervals
    focused,        \* vscode.window.state.focused
    seenLog,        \* a poll has found the log since it last came to exist
    \* ---- detectors/AntigravityDetector.ts
    anti,           \* the detector's fields and its live poll intervals
    reads,          \* checkLogs calls suspended in their read of the log
    \* ---- QuotaMonitor
    quota,          \* the monitor's fields, its live poll intervals, its suspended calls
    quotaStopped,   \* stop() has returned and start() was not called since
    \* ---- observer of AntigravityDetector's turns
    intent          \* what was processed last, a fireStop or an intent line, and
                    \* whether the last read adopted a PID on an intent older than a stop

aggVars == <<isThinking, isAIEnabled, activityTimer, timeouts, togglePending, sincePulse,
            lastCommand,
            steady>>

cursorVars == <<cursor, stateFile, mtimeChanged, sinceStopObs>>

logVars == <<logFile, handed>>

copilotVars == <<copilot, focused, seenLog>>

antiVars == <<anti, reads>>

quotaVars == <<quota, quotaStopped>>

intentVars == <<intent>>

obsVars == <<obs, sinceStartCb>>

vars == <<ev, calls, obsVars, aggVars, cursorVars, logVars, copilotVars, antiVars,
          quotaVars, intentVars>>

(***************************************************************************)
(* Program constants                                                       *)
(***************************************************************************)
ACTIVITY_TIMEOUT_MS == 10000
HEARTBEAT_MS == 1000
STOP_DEBOUNCE_MS == 5000
POLL_INTERVAL_MS == 1000
STARTUP_GRACE_PERIOD_MS == 5000
SILENCE_TIMEOUT_MS == 60000
LOG_TIMEOUT_MS == 10000
POLL_INTERVAL == 1000

(***************************************************************************)
(* Bounds of the model                                                     *)
(***************************************************************************)
MaxPendingToggle == 2
MaxStarts == 2
MaxLogLines == 2
MaxScenarioLines == 3
MaxLocateLines == 1
MaxTargets == 2
MaxPolls == 2
MaxReads == 2

(***************************************************************************)
(* Timers and ages                                                         *)
(***************************************************************************)
Quantum == HEARTBEAT_MS

null == <<>>

Min(a, b) == IF a < b THEN a ELSE b

Max(a, b) == IF a < b THEN b ELSE a

\* setTimeout(cb, ms) / setInterval(cb, ms): a handle with ms left
Armed(ms) == <<ms>>

\* the timer's callback is due
Due(t) == t # null /\ t[1] = 0

\* one Tick of a pending timer
Elapse(t) == IF t = null THEN null ELSE <<Max(0, t[1] - Quantum)>>

\* The event loop's live timers of one kind: the milliseconds left of each, the
\* oldest first.  setTimeout/setInterval adds one, clearTimeout/clearInterval of
\* a handle removes the one the handle names (none when it already ran).
RECURSIVE Without(_, _)
Without(b, r) ==
    IF b = <<>> THEN <<>>
    ELSE IF Head(b) = r THEN Tail(b)
    ELSE <<Head(b)>> \o Without(Tail(b), r)

Cleared(b, t) == IF t = null THEN b ELSE Without(b, t[1])

AnyDue(b) == \E i \in DOMAIN b : b[i] = 0

ElapseAll(b) == [i \in DOMAIN b |-> Max(0, b[i] - Quantum)]

\* one Tick of an age that saturates at cap
Older(age, cap) == Min(age + Quantum, cap)

(***************************************************************************)
(* extension.ts: the activity aggregator                                   *)
(***************************************************************************)

\* the DoomController remembers the last of the calls a handler made on it
Commanded ==
    lastCommand' = IF calls' = <<>> THEN lastCommand ELSE calls'[Len(calls')]

\* setThinking() starting the game whether or not AI integration is enabled
SetThinkingCallsAlways == <<"doom.start">>

\* setThinking(): the calls it makes
SetThinkingCalls == IF isAIEnabled THEN <<"doom.start">> ELSE <<>>

\* setReady() that leaves activityTimer as it is
SetReadyKeepsTimer(live) ==
    IF ~isThinking /\ activityTimer = null
    THEN /\ UNCHANGED <<isThinking, activityTimer>>
         /\ timeouts' = live
         /\ calls' = <<>>
    ELSE /\ isThinking' = FALSE
         /\ activityTimer' = activityTimer
         /\ timeouts' = live
         /\ calls' = <<"doom.stop">>

\* setReady(), live being the event loop's timeouts when it is called
SetReady(live) ==
    IF ~isThinking /\ activityTimer = null
    THEN /\ UNCHANGED <<isThinking, activityTimer>>
         /\ timeouts' = live
         /\ calls' = <<>>
    ELSE /\ isThinking' = FALSE
         /\ activityTimer' = null
         /\ timeouts' = Cleared(live, activityTimer)
         /\ calls' = <<"doom.stop">>

\* handleActivity() arming the fallback timer only when none is pending
HandleActivityNoRearm ==
    /\ isThinking' = TRUE
    /\ calls' = IF ~isThinking THEN SetThinkingCalls ELSE <<>>
    /\ activityTimer' = IF activityTimer = null THEN Armed(ACTIVITY_TIMEOUT_MS)
                        ELSE activityTimer
    /\ timeouts' = IF activityTimer = null THEN Append(timeouts, ACTIVITY_TIMEOUT_MS)
                   ELSE timeouts

\* handleActivity() without the clearTimeout of the previous timer
HandleActivityNoClear ==
    /\ isThinking' = TRUE
    /\ calls' = IF ~isThinking THEN SetThinkingCalls ELSE <<>>
    /\ activityTimer' = Armed(ACTIVITY_TIMEOUT_MS)
    /\ timeouts' = Append(timeouts, ACTIVITY_TIMEOUT_MS)

\* handleActivity()
HandleActivity ==
    /\ isThinking' = TRUE
    /\ calls' = IF ~isThinking THEN SetThinkingCalls ELSE <<>>
    /\ activityTimer' = Armed(ACTIVITY_TIMEOUT_MS)
    /\ timeouts' = Append(Cleared(timeouts, activityTimer), ACTIVITY_TIMEOUT_MS)

\* aiDetector.onThinkingStart(() => handleActivity())
OnThinkingStart ==
    /\ HandleActivity
    /\ ev' = "onThinkingStart"
    /\ Commanded
    /\ sincePulse' = 0
    /\ UNCHANGED <<isAIEnabled, togglePending, steady>>

\* the stop callback with its commented-out setReady() live
StopCallbackSetsReady ==
    /\ SetReady(timeouts)
    /\ UNCHANGED isAIEnabled

\* the body of the callback registered with aiDetector.onThinkingStop: empty
StopCallbackBody ==
    /\ calls' = <<>>
    /\ UNCHANGED <<isThinking, isAIEnabled, activityTimer, timeouts>>

\* aiDetector.onThinkingStop(() => { })
OnThinkingStop ==
    /\ StopCallbackBody
    /\ ev' = "onThinkingStop"
    /\ Commanded
    /\ UNCHANGED <<togglePending, sincePulse, steady>>

\* the callback of a timeout armed by handleActivity
ActivityTimeout ==
    /\ AnyDue(timeouts)
    /\ SetReady(Without(timeouts, 0))
    /\ ev' = "activityTimeout"
    /\ Commanded
    /\ UNCHANGED <<isAIEnabled, togglePending, sincePulse, steady>>

\* command doom-while-ai-works.start
CmdStart ==
    /\ isThinking' = TRUE
    /\ calls' = <<"doom.start">>
    /\ ev' = "cmdStart"
    /\ Commanded
    /\ UNCHANGED <<isAIEnabled, activityTimer, timeouts, togglePending, sincePulse, steady>>

\* command doom-while-ai-works.pause
CmdPause ==
    /\ ~steady
    /\ SetReady(timeouts)
    /\ ev' = "cmdPause"
    /\ Commanded
    /\ UNCHANGED <<isAIEnabled, togglePending, sincePulse, steady>>

\* a toggleAI that runs setReady() before its await
CmdToggleAISetsReady ==
    /\ ~steady
    /\ togglePending < MaxPendingToggle
    /\ isAIEnabled' = ~isAIEnabled
    /\ togglePending' = togglePending + 1
    /\ SetReady(timeouts)
    /\ ev' = "toggleAI"
    /\ Commanded
    /\ UNCHANGED <<sincePulse, steady>>

\* command doom-while-ai-works.toggleAI, up to its await
CmdToggleAI ==
    /\ ~steady
    /\ togglePending < MaxPendingToggle
    /\ isAIEnabled' = ~isAIEnabled
    /\ togglePending' = togglePending + 1
    /\ calls' = <<>>
    /\ ev' = "toggleAI"
    /\ Commanded
    /\ UNCHANGED <<isThinking, activityTimer, timeouts, sincePulse, steady>>

\* the toggleAI continuation starting the game whenever AI integration is on
ToggleAIResumeIgnoresThinking ==
    /\ togglePending > 0
    /\ togglePending' = togglePending - 1
    /\ IF ~isAIEnabled /\ isThinking
       THEN SetReady(timeouts)
       ELSE /\ calls' = IF isAIEnabled THEN <<"doom.start">> ELSE <<>>
            /\ UNCHANGED <<isThinking, activityTimer, timeouts>>
    /\ ev' = "toggleAIResume"
    /\ Commanded
    /\ UNCHANGED <<isAIEnabled, sincePulse, steady>>

\* command doom-while-ai-works.toggleAI, after its await
ToggleAIResume ==
    /\ togglePending > 0
    /\ togglePending' = togglePending - 1
    /\ IF ~isAIEnabled /\ isThinking
       THEN SetReady(timeouts)
       ELSE /\ calls' = IF isAIEnabled /\ isThinking THEN <<"doom.start">> ELSE <<>>
            /\ UNCHANGED <<isThinking, activityTimer, timeouts>>
    /\ ev' = "toggleAIResume"
    /\ Commanded
    /\ UNCHANGED <<isAIEnabled, sincePulse, steady>>

\* HEARTBEAT_MS pass with no handler running; a steady detector lets no
\* period pass without a pulse
AggTick ==
    /\ ~AnyDue(timeouts)
    /\ steady => sincePulse < HEARTBEAT_MS
    /\ activityTimer' = Elapse(activityTimer)
    /\ timeouts' = ElapseAll(timeouts)
    /\ sincePulse' = Older(sincePulse, ACTIVITY_TIMEOUT_MS)
    /\ calls' = <<>>
    /\ ev' = "tick"
    /\ Commanded
    /\ UNCHANGED <<isThinking, isAIEnabled, togglePending, steady>>

\* activate(): isAIEnabled is loaded from globalState; whether the detector
\* selected is a steady one is fixed from here on
AggInit ==
    /\ isThinking = FALSE
    /\ isAIEnabled \in BOOLEAN
    /\ activityTimer = null
    /\ timeouts = <<>>
    /\ togglePending = 0
    /\ sincePulse = ACTIVITY_TIMEOUT_MS
    /\ steady \in BOOLEAN
    /\ lastCommand = "none"

(***************************************************************************)
(* detectors/CursorDetector.ts (the class with the stop debounce)          *)
(***************************************************************************)

Absent == <<"absent">>

\* File contents, as sequences of tokens: "thinking" and "THINKING" the word in
\* lower and upper case, "idle", "ws" white space or a line end, "ctl" a
\* control character that is not white space, "x" any other text.
Contents ==
    { <<"thinking">>, <<"idle">>, <<"THINKING", "ws">>, <<"ws", "idle", "ws">>,
      <<"thinking", "x">>, <<"ctl", "thinking">>, <<>> }

IsSpace(tok) == tok = "ws"

\* String.prototype.trim()
RECURSIVE TrimStart(_)
TrimStart(c) == IF c # <<>> /\ IsSpace(Head(c)) THEN TrimStart(Tail(c)) ELSE c

RECURSIVE TrimEnd(_)
TrimEnd(c) ==
    IF c # <<>> /\ IsSpace(c[Len(c)]) THEN TrimEnd(SubSeq(c, 1, Len(c) - 1)) ELSE c

Trim(c) == TrimEnd(TrimStart(c))

\* String.prototype.toLowerCase()
ToLowerCase(c) == [i \in DOMAIN c |-> IF c[i] = "THINKING" THEN "thinking" ELSE c[i]]

\* content === 'thinking' after trim().toLowerCase()
IsThinkingContent(c) == ToLowerCase(Trim(c)) = <<"thinking">>

\* a run of a handler: the detector's fields and timers, and the callbacks
\* invoked so far
CursorRun(c) ==
    [heartbeatInterval |-> c.heartbeatInterval, stopDebounceTimer |-> c.stopDebounceTimer,
     intervals |-> c.intervals, debounces |-> c.debounces, watcher |-> c.watcher,
     listeners |-> c.listeners, calls |-> <<>>]

CursorFields(r) ==
    [heartbeatInterval |-> r.heartbeatInterval, stopDebounceTimer |-> r.stopDebounceTimer,
     intervals |-> r.intervals, debounces |-> r.debounces, watcher |-> r.watcher,
     listeners |-> r.listeners]

\* startHeartbeat()
StartHeartbeat(r) ==
    [r EXCEPT !.calls = Append(@, "onThinkingStart"),
              !.heartbeatInterval = Armed(HEARTBEAT_MS),
              !.intervals = Append(@, HEARTBEAT_MS)]

\* stopHeartbeat()
StopHeartbeat(r) ==
    [r EXCEPT !.intervals = Cleared(@, r.heartbeatInterval),
              !.heartbeatInterval = null]

\* checkState() whose Start branch forgets the pending debounce timer
\* without clearTimeout
CheckStateNoCancel(r, file, readOk) ==
    IF file = Absent THEN r
    ELSE IF ~readOk THEN StopHeartbeat(r)
    ELSE IF IsThinkingContent(file)
    THEN LET r1 == [r EXCEPT !.stopDebounceTimer = null]
         IN  IF r1.heartbeatInterval = null THEN StartHeartbeat(r1) ELSE r1
    ELSE IF r.heartbeatInterval # null /\ r.stopDebounceTimer = null
         THEN [r EXCEPT !.stopDebounceTimer = Armed(STOP_DEBOUNCE_MS),
                        !.debounces = Append(@, STOP_DEBOUNCE_MS)]
         ELSE r

\* checkState() that reports a Stop-class content at once, with no debounce
CheckStateNoDebounce(r, file, readOk) ==
    IF file = Absent THEN r
    ELSE IF ~readOk THEN StopHeartbeat(r)
    ELSE IF IsThinkingContent(file)
    THEN IF r.heartbeatInterval = null THEN StartHeartbeat(r) ELSE r
    ELSE IF r.heartbeatInterval # null
         THEN [StopHeartbeat(r) EXCEPT !.calls = Append(@, "onThinkingStop")]
         ELSE r

\* a checkState that arms the stop debounce at every Stop-class observation
\* made while the heartbeat runs
CheckStateDebouncesAgain(r, file, readOk) ==
    IF file = Absent THEN r
    ELSE IF ~readOk THEN StopHeartbeat(r)
    ELSE IF IsThinkingContent(file)
    THEN LET r1 == IF r.stopDebounceTimer # null
                   THEN [r EXCEPT !.debounces = Cleared(@, r.stopDebounceTimer),
                                  !.stopDebounceTimer = null]
                   ELSE r
         IN  IF r1.heartbeatInterval = null THEN StartHeartbeat(r1) ELSE r1
    ELSE IF r.heartbeatInterval # null
         THEN [r EXCEPT !.stopDebounceTimer = Armed(STOP_DEBOUNCE_MS),
                        !.debounces = Append(@, STOP_DEBOUNCE_MS)]
         ELSE r

\* a checkState whose catch leaves the heartbeat running
CheckStateKeepsHeartbeat(r, file, readOk) ==
    IF file = Absent \/ ~readOk THEN r
    ELSE IF IsThinkingContent(file)
    THEN LET r1 == IF r.stopDebounceTimer # null
                   THEN [r EXCEPT !.debounces = Cleared(@, r.stopDebounceTimer),
                                  !.stopDebounceTimer = null]
                   ELSE r
         IN  IF r1.heartbeatInterval = null THEN StartHeartbeat(r1) ELSE r1
    ELSE IF r.heartbeatInterval # null /\ r.stopDebounceTimer = null
         THEN [r EXCEPT !.stopDebounceTimer = Armed(STOP_DEBOUNCE_MS),
                        !.debounces = Append(@, STOP_DEBOUNCE_MS)]
         ELSE r

\* checkState(): file is what existsSync/readFileSync find, readOk whether
\* readFileSync returns rather than throws
CheckState(r, file, readOk) ==
    IF file = Absent THEN r
    ELSE IF ~readOk THEN StopHeartbeat(r)
    ELSE IF IsThinkingContent(file)
    THEN LET r1 == IF r.stopDebounceTimer # null
                   THEN [r EXCEPT !.debounces = Cleared(@, r.stopDebounceTimer),
                                  !.stopDebounceTimer = null]
                   ELSE r
         IN  IF r1.heartbeatInterval = null THEN StartHeartbeat(r1) ELSE r1
    ELSE IF r.heartbeatInterval # null /\ r.stopDebounceTimer = null
         THEN [r EXCEPT !.stopDebounceTimer = Armed(STOP_DEBOUNCE_MS),
                        !.debounces = Append(@, STOP_DEBOUNCE_MS)]
         ELSE r

\* what a checkState of detector c observes: nothing to read, a failed read, a
\* Stop-class content, or a Start-class content ("Resume" when it finds a stop
\* debounce pending)
Observation(c, file, readOk) ==
    IF file = Absent THEN "absent"
    ELSE IF ~readOk THEN "error"
    ELSE IF ~IsThinkingContent(file) THEN "Stop"
    ELSE IF c.stopDebounceTimer # null THEN "Resume" ELSE "Start"

\* the age of the first Stop-class observation made while Thinking since the
\* last Start-class observation; null when there is none
StopObsAfter(c, o) ==
    IF o \in {"Start", "Resume"} THEN null
    ELSE IF o = "Stop" /\ c.heartbeatInterval # null /\ sinceStopObs = null THEN <<0>>
    ELSE sinceStopObs

\* the age of the last start callback after a handler that made these calls
StartCbAfter(cs) ==
    IF \E i \in DOMAIN cs : cs[i] = "onThinkingStart" THEN 0 ELSE sinceStartCb

\* checkState() once per listener registered with fs.watchFile
RECURSIVE CheckStateTimes(_, _, _, _)
CheckStateTimes(n, r, file, readOk) ==
    IF n = 0 THEN r ELSE CheckStateTimes(n - 1, CheckState(r, file, readOk), file, readOk)

\* start(): startWatching() checks the state and registers the listener
CursorStart ==
    /\ cursor.listeners < MaxStarts
    /\ \E readOk \in BOOLEAN :
          LET r == CheckState(CursorRun(cursor), stateFile, readOk)
          IN  /\ cursor' = [CursorFields(r) EXCEPT !.listeners = @ + 1]
              /\ calls' = r.calls
              /\ obs' = Observation(cursor, stateFile, readOk)
              /\ sinceStopObs' = StopObsAfter(cursor, Observation(cursor, stateFile, readOk))
              /\ sinceStartCb' = StartCbAfter(r.calls)
    /\ ev' = "start"
    /\ UNCHANGED <<stateFile, mtimeChanged>>

\* stop(), on the fields c: this.watcher is never assigned, so nothing is
\* closed
CursorStopped(c) ==
    IF c.watcher # null THEN [c EXCEPT !.watcher = null, !.listeners = 0] ELSE c

\* stop()
CursorStop ==
    /\ cursor' = CursorStopped(cursor)
    /\ calls' = <<>>
    /\ ev' = "stop"
    /\ obs' = "none"
    /\ UNCHANGED <<stateFile, mtimeChanged, sinceStopObs, sinceStartCb>>

\* the hook (or anyone) rewrites the sentinel file
WriteStateFile ==
    /\ \E c \in Contents : stateFile' = c
    /\ mtimeChanged' = TRUE
    /\ calls' = <<>>
    /\ ev' = "write"
    /\ obs' = "none"
    /\ UNCHANGED <<cursor, sinceStopObs, sinceStartCb>>

\* the sentinel file is removed
DeleteStateFile ==
    /\ stateFile # Absent
    /\ stateFile' = Absent
    /\ mtimeChanged' = TRUE
    /\ calls' = <<>>
    /\ ev' = "delete"
    /\ obs' = "none"
    /\ UNCHANGED <<cursor, sinceStopObs, sinceStartCb>>

\* fs.watchFile's poll finds a new mtime and runs every listener
WatchPoll ==
    /\ cursor.listeners > 0
    /\ mtimeChanged
    /\ mtimeChanged' = FALSE
    /\ \E readOk \in BOOLEAN :
          LET r == CheckStateTimes(cursor.listeners, CursorRun(cursor), stateFile, readOk)
          IN  /\ cursor' = CursorFields(r)
              /\ calls' = r.calls
              /\ obs' = Observation(cursor, stateFile, readOk)
              /\ sinceStopObs' = StopObsAfter(cursor, Observation(cursor, stateFile, readOk))
              /\ sinceStartCb' = StartCbAfter(r.calls)
    /\ ev' = "watch"
    /\ UNCHANGED stateFile

\* the setInterval callback of startHeartbeat
HeartbeatFire ==
    /\ AnyDue(cursor.intervals)
    /\ cursor' = [cursor EXCEPT
                    !.intervals = Append(Without(@, 0), HEARTBEAT_MS),
                    !.heartbeatInterval = IF Due(@) THEN Armed(HEARTBEAT_MS) ELSE @]
    /\ calls' = <<"onThinkingStart">>
    /\ sinceStartCb' = 0
    /\ ev' = "heartbeat"
    /\ obs' = "none"
    /\ UNCHANGED <<stateFile, mtimeChanged, sinceStopObs>>

\* the setTimeout callback armed by checkState
DebounceFire ==
    /\ AnyDue(cursor.debounces)
    /\ LET r0 == [CursorRun(cursor) EXCEPT !.debounces = Without(@, 0)]
           r1 == StopHeartbeat(r0)
           r2 == [r1 EXCEPT !.calls = Append(@, "onThinkingStop"),
                            !.stopDebounceTimer = null]
       IN  /\ cursor' = CursorFields(r2)
           /\ calls' = r2.calls
    /\ ev' = "debounce"
    /\ obs' = "none"
    /\ UNCHANGED <<stateFile, mtimeChanged, sinceStopObs, sinceStartCb>>

\* HEARTBEAT_MS pass with no handler running
CursorTick ==
    /\ ~AnyDue(cursor.intervals)
    /\ ~AnyDue(cursor.debounces)
    /\ cursor' = [cursor EXCEPT !.intervals = ElapseAll(@),
                                !.debounces = ElapseAll(@),
                                !.heartbeatInterval = Elapse(@),
                                !.stopDebounceTimer = Elapse(@)]
    /\ sinceStopObs' = IF sinceStopObs = null THEN null
                       ELSE <<Older(sinceStopObs[1], STOP_DEBOUNCE_MS)>>
    /\ sinceStartCb' = Older(sinceStartCb, HEARTBEAT_MS + Quantum)
    /\ calls' = <<>>
    /\ ev' = "tick"
    /\ obs' = "none"
    /\ UNCHANGED <<stateFile, mtimeChanged>>

\* new CursorDetector(context): the file is created with 'idle' when missing;
\* an existing file keeps what the hook last wrote
CursorInit ==
    /\ cursor = [heartbeatInterval |-> null, stopDebounceTimer |-> null,
                 intervals |-> <<>>, debounces |-> <<>>, watcher |-> null,
                 listeners |-> 0]
    /\ stateFile \in Contents
    /\ mtimeChanged = FALSE
    /\ sinceStopObs = null

(***************************************************************************)
(* The log file of the log-tail detectors.  A byte is a token: "nl" a line *)
(* end, any other token a piece of a line's text.                          *)
(***************************************************************************)

\* content.split('\n'): the lines of a delta, the text after the last line end
\* (empty or not) being the last line
RECURSIVE SplitLines(_, _)
SplitLines(content, line) ==
    IF content = <<>> THEN <<line>>
    ELSE IF Head(content) = "nl" THEN <<line>> \o SplitLines(Tail(content), <<>>)
    ELSE SplitLines(Tail(content), Append(line, Head(content)))

\* a marker whose text reaches the file in two writes: the tokens of its
\* first and of its second part
Halves == [S |-> <<"S1", "S2">>, E |-> <<"E1", "E2">>]

\* line.includes(marker): the marker's text, whole or as its two parts one
\* after the other
Includes(line, marker) ==
    \/ \E i \in DOMAIN line : line[i] = marker
    \/ /\ marker \in DOMAIN Halves
       /\ \E i \in 1..(Len(line) - 1) :
             line[i] = Halves[marker][1] /\ line[i + 1] = Halves[marker][2]

Lines(file) == Len(SelectSeq(file, LAMBDA b : b = "nl"))

\* the bytes at offsets [from, to) of the file, offsets counted from 0
Bytes(file, from, to) == SubSeq(file, from + 1, Min(to, Len(file)))

\* handed, after offsets [from, to) went to the parser once more
HandedMore(h, from, to) ==
    [i \in DOMAIN h |-> IF from < i /\ i <= to THEN Min(h[i] + 1, 2) ELSE h[i]]

Zeros(n) == [i \in 1..n |-> 0]

\* the log, of fewer than max lines, grows by one written piece
AppendLogUpTo(pieces, max) ==
    /\ logFile # Absent
    /\ Lines(logFile) < max
    /\ \E piece \in pieces :
          /\ logFile' = logFile \o piece
          /\ handed' = handed \o Zeros(Len(piece))

AppendLog(pieces) == AppendLogUpTo(pieces, MaxLogLines)

\* the log is truncated or rotated: a shorter file under the same path
TruncateLog ==
    /\ logFile # Absent
    /\ logFile # <<>>
    /\ \E n \in 0..(Len(logFile) - 1) :
          /\ IF n = 0 THEN TRUE ELSE logFile[n] = "nl"
          /\ logFile' = SubSeq(logFile, 1, n)
          /\ handed' = SubSeq(handed, 1, n)

\* the log is removed
DeleteLog ==
    /\ logFile # Absent
    /\ logFile' = Absent
    /\ handed' = <<>>

\* the log is created, empty
CreateLog ==
    /\ logFile = Absent
    /\ logFile' = <<>>
    /\ handed' = <<>>

(***************************************************************************)
(* detectors/VSCodeCopilotDetector.ts                                      *)
(***************************************************************************)

\* Lines the Copilot Chat log can gain: "S" is a start marker
\* ('[debug] AgentIntent:' or '[debug] GH request id:'), "E" an end marker
\* ('[info] request done:' or '[info] message 0 returned. finish reason:'),
\* "x" any other text.
CopilotPieces == { <<"S", "nl">>, <<"E", "nl">>, <<"x", "nl">> }

\* a run of a handler: the detector's fields, the callbacks invoked so far
CopilotRun(d) ==
    [poller |-> d.poller, pollers |-> d.pollers, starting |-> d.starting,
     currentSize |-> d.currentSize, isThinking |-> d.isThinking,
     lastActivityAge |-> d.lastActivityAge, startupAge |-> d.startupAge,
     calls |-> <<>>]

CopilotFields(r) ==
    [poller |-> r.poller, pollers |-> r.pollers, starting |-> r.starting,
     currentSize |-> r.currentSize, isThinking |-> r.isThinking,
     lastActivityAge |-> r.lastActivityAge, startupAge |-> r.startupAge]

\* parseLogContent's loop body without the grace period check
ParseLineNoGrace(r, line, foc) ==
    LET hasStart == Includes(line, "S")
        hasEnd == Includes(line, "E")
        r1 == IF hasStart
              THEN [r EXCEPT !.isThinking = TRUE,
                             !.lastActivityAge = 0,
                             !.calls = IF ~r.isThinking /\ foc
                                       THEN Append(@, "onThinkingStart")
                                       ELSE @]
              ELSE r
        r2 == IF r1.isThinking THEN [r1 EXCEPT !.lastActivityAge = 0] ELSE r1
    IN  IF hasEnd /\ r2.isThinking THEN [r2 EXCEPT !.isThinking = FALSE] ELSE r2

\* parseLogContent's loop body taking every non-empty line for a start
\* trigger
ParseLineEveryLineStarts(r, line, foc) ==
    LET hasStart == line # <<>>
        hasEnd == Includes(line, "E")
        inGrace == r.startupAge < STARTUP_GRACE_PERIOD_MS
    IN  IF hasStart /\ ~r.isThinking /\ inGrace THEN r
        ELSE LET r1 == IF hasStart
                       THEN [r EXCEPT !.isThinking = TRUE,
                                      !.lastActivityAge = 0,
                                      !.calls = IF ~r.isThinking /\ foc
                                                THEN Append(@, "onThinkingStart")
                                                ELSE @]
                       ELSE r
                 r2 == IF r1.isThinking THEN [r1 EXCEPT !.lastActivityAge = 0] ELSE r1
             IN  IF hasEnd /\ r2.isThinking THEN [r2 EXCEPT !.isThinking = FALSE] ELSE r2

\* a loop body in which only start-marker lines write lastActivityTime
ParseLineNoKeepAlive(r, line, foc) ==
    LET hasStart == Includes(line, "S")
        hasEnd == Includes(line, "E")
        inGrace == r.startupAge < STARTUP_GRACE_PERIOD_MS
    IN  IF hasStart /\ ~r.isThinking /\ inGrace THEN r
        ELSE LET r1 == IF hasStart
                       THEN [r EXCEPT !.isThinking = TRUE,
                                      !.lastActivityAge = 0,
                                      !.calls = IF ~r.isThinking /\ foc
                                                THEN Append(@, "onThinkingStart")
                                                ELSE @]
                       ELSE r
             IN  IF hasEnd /\ r1.isThinking THEN [r1 EXCEPT !.isThinking = FALSE] ELSE r1

\* parseLogContent: the body of the loop, for one line
ParseLine(r, line, foc) ==
    LET hasStart == Includes(line, "S")
        hasEnd == Includes(line, "E")
        inGrace == r.startupAge < STARTUP_GRACE_PERIOD_MS
    IN  IF hasStart /\ ~r.isThinking /\ inGrace THEN r
        ELSE LET r1 == IF hasStart
                       THEN [r EXCEPT !.isThinking = TRUE,
                                      !.lastActivityAge = 0,
                                      !.calls = IF ~r.isThinking /\ foc
                                                THEN Append(@, "onThinkingStart")
                                                ELSE @]
                       ELSE r
                 r2 == IF r1.isThinking THEN [r1 EXCEPT !.lastActivityAge = 0] ELSE r1
             IN  IF hasEnd /\ r2.isThinking THEN [r2 EXCEPT !.isThinking = FALSE] ELSE r2

\* parseLogContent
RECURSIVE ParseLines(_, _, _)
ParseLines(r, lines, foc) ==
    IF lines = <<>> THEN r
    ELSE ParseLines(ParseLine(r, Head(lines), foc), Tail(lines), foc)

ParseLogContent(r, content, foc) == ParseLines(r, SplitLines(content, <<>>), foc)

\* checkSilenceTimeout
CheckSilenceTimeout(r) ==
    IF r.isThinking /\ r.lastActivityAge > SILENCE_TIMEOUT_MS
    THEN [r EXCEPT !.isThinking = FALSE]
    ELSE r

\* a heartbeat that does not test isThinking
CopilotHeartbeatWhenIdle(r, foc) ==
    IF foc THEN [r EXCEPT !.calls = Append(@, "onThinkingStart")] ELSE r

\* a heartbeat that does not test the window's focus
CopilotHeartbeatUnfocused(r, foc) ==
    IF r.isThinking THEN [r EXCEPT !.calls = Append(@, "onThinkingStart")] ELSE r

\* checkLogs: the active heartbeat at its end
CopilotHeartbeat(r, foc) ==
    IF r.isThinking /\ foc THEN [r EXCEPT !.calls = Append(@, "onThinkingStart")] ELSE r

\* a checkLogs that starts afresh when it finds no log
CopilotCheckLogsResetsOnMissing(r, file, ioOk, foc) ==
    IF file = Absent THEN [r EXCEPT !.currentSize = 0, !.isThinking = FALSE]
    ELSE IF ~ioOk THEN r
    ELSE IF r.currentSize = 0 THEN [r EXCEPT !.currentSize = Len(file)]
    ELSE LET r1 == IF Len(file) > r.currentSize
                   THEN ParseLogContent([r EXCEPT !.currentSize = Len(file)],
                                        Bytes(file, r.currentSize, Len(file)), foc)
                   ELSE IF Len(file) < r.currentSize
                   THEN [r EXCEPT !.currentSize = Len(file), !.isThinking = FALSE]
                   ELSE r
         IN  CopilotHeartbeat(CheckSilenceTimeout(r1), foc)

\* checkLogs: file is what existsSync/statSync/readSync find, ioOk whether
\* they all return rather than throw
CopilotCheckLogs(r, file, ioOk, foc) ==
    IF file = Absent \/ ~ioOk THEN r
    ELSE IF r.currentSize = 0 THEN [r EXCEPT !.currentSize = Len(file)]
    ELSE LET r1 == IF Len(file) > r.currentSize
                   THEN ParseLogContent([r EXCEPT !.currentSize = Len(file)],
                                        Bytes(file, r.currentSize, Len(file)), foc)
                   ELSE IF Len(file) < r.currentSize
                   THEN [r EXCEPT !.currentSize = Len(file), !.isThinking = FALSE]
                   ELSE r
         IN  CopilotHeartbeat(CheckSilenceTimeout(r1), foc)

\* what a poll with recorded size size finds: no file, a failed call, a file
\* seen for the first time, or one that grew, shrank or kept its size
LogObservation(size, file, ioOk) ==
    IF file = Absent THEN "absent"
    ELSE IF ~ioOk THEN "error"
    ELSE IF size = 0 THEN "latch"
    ELSE IF Len(file) > size THEN "grow"
    ELSE IF Len(file) < size THEN "shrink"
    ELSE "same"

\* the byte range checkLogs hands to parseLogContent: <<from, to>>
CopilotParsedRange(d, file, ioOk) ==
    IF file # Absent /\ ioOk /\ d.currentSize # 0 /\ Len(file) > d.currentSize
    THEN <<d.currentSize, Len(file)>>
    ELSE <<0, 0>>

\* start(), up to its await of checkDebugLogLevel()
CopilotStart ==
    /\ copilot.starting + Len(copilot.pollers) < MaxStarts
    /\ copilot' = [copilot EXCEPT !.starting = @ + 1]
    /\ calls' = <<>>
    /\ ev' = "start"
    /\ obs' = "none"
    /\ UNCHANGED <<logVars, focused, seenLog, sinceStartCb>>

\* start(), after its await: startPolling()
CopilotStartPolling ==
    /\ copilot.starting > 0
    /\ copilot' = [copilot EXCEPT !.starting = @ - 1,
                                  !.poller = Armed(POLL_INTERVAL_MS),
                                  !.pollers = Append(@, POLL_INTERVAL_MS)]
    /\ calls' = <<>>
    /\ ev' = "startPolling"
    /\ obs' = "none"
    /\ UNCHANGED <<logVars, focused, seenLog, sinceStartCb>>

\* stop() that clears the interval and keeps its handle
CopilotStoppedKeepsHandle(d) ==
    IF d.poller # null THEN [d EXCEPT !.pollers = Cleared(@, d.poller)] ELSE d

\* stop(), on the fields d
CopilotStopped(d) ==
    IF d.poller # null
    THEN [d EXCEPT !.pollers = Cleared(@, d.poller), !.poller = null]
    ELSE d

\* stop()
CopilotStop ==
    /\ copilot' = CopilotStopped(copilot)
    /\ calls' = <<>>
    /\ ev' = "stop"
    /\ obs' = "none"
    /\ UNCHANGED <<logVars, focused, seenLog, sinceStartCb>>

\* the setInterval callback of startPolling: checkLogs()
CopilotPoll ==
    /\ AnyDue(copilot.pollers)
    /\ \E ioOk \in BOOLEAN :
          LET d == [copilot EXCEPT
                      !.pollers = Append(Without(@, 0), POLL_INTERVAL_MS),
                      !.poller = IF Due(@) THEN Armed(POLL_INTERVAL_MS) ELSE @]
              r == CopilotCheckLogs(CopilotRun(d), logFile, ioOk, focused)
              range == CopilotParsedRange(d, logFile, ioOk)
          IN  /\ copilot' = CopilotFields(r)
              /\ calls' = r.calls
              /\ handed' = IF logFile = Absent THEN handed
                           ELSE HandedMore(handed, range[1], range[2])
              /\ obs' = LogObservation(d.currentSize, logFile, ioOk)
              /\ sinceStartCb' = StartCbAfter(r.calls)
              /\ seenLog' = (seenLog \/ (logFile # Absent /\ ioOk))
    /\ ev' = "poll"
    /\ UNCHANGED <<logFile, focused>>

\* the Copilot Chat log gains a line
CopilotAppend ==
    /\ AppendLog(CopilotPieces)
    /\ calls' = <<>>
    /\ ev' = "env"
    /\ obs' = "none"
    /\ UNCHANGED <<copilotVars, sinceStartCb>>

\* the same, in a log that is let grow to MaxScenarioLines lines
CopilotAppendScenario ==
    /\ AppendLogUpTo(CopilotPieces, MaxScenarioLines)
    /\ calls' = <<>>
    /\ ev' = "env"
    /\ obs' = "none"
    /\ UNCHANGED <<copilotVars, sinceStartCb>>

\* the log, let grow to MaxScenarioLines lines, gains a line in one write,
\* or a start-marker line in two: the second completes the line the first
\* has begun
CopilotAppendPartial ==
    /\ logFile # Absent
    /\ Lines(logFile) < MaxScenarioLines
    /\ \E piece \in (IF logFile # <<>> /\ logFile[Len(logFile)] = Halves.S[1]
                      THEN { <<Halves.S[2], "nl">> }
                      ELSE { <<Halves.S[1]>>, <<"S", "nl">>, <<"x", "nl">> }) :
          /\ logFile' = logFile \o piece
          /\ handed' = handed \o Zeros(Len(piece))
    /\ calls' = <<>>
    /\ ev' = "env"
    /\ obs' = "none"
    /\ UNCHANGED <<copilotVars, sinceStartCb>>

CopilotTruncate ==
    /\ TruncateLog
    /\ calls' = <<>>
    /\ ev' = "env"
    /\ obs' = "none"
    /\ UNCHANGED <<copilotVars, sinceStartCb>>

CopilotDelete ==
    /\ DeleteLog
    /\ seenLog' = FALSE
    /\ calls' = <<>>
    /\ ev' = "env"
    /\ obs' = "none"
    /\ UNCHANGED <<copilot, focused, sinceStartCb>>

CopilotCreate ==
    /\ CreateLog
    /\ calls' = <<>>
    /\ ev' = "env"
    /\ obs' = "none"
    /\ UNCHANGED <<copilotVars, sinceStartCb>>

\* the editor window gains or loses focus
FocusChange ==
    /\ focused' = ~focused
    /\ calls' = <<>>
    /\ ev' = "env"
    /\ obs' = "none"
    /\ UNCHANGED <<copilot, seenLog, logVars, sinceStartCb>>

\* POLL_INTERVAL_MS pass with no handler running.  lastActivityTime is read
\* only while isThinking (checkSilenceTimeout) and every line that sets
\* isThinking writes it first, so its age is followed only while isThinking
\* and is the saturated one otherwise.
CopilotTick ==
    /\ ~AnyDue(copilot.pollers)
    /\ copilot' = [copilot EXCEPT
                     !.pollers = ElapseAll(@),
                     !.poller = Elapse(@),
                     !.lastActivityAge = IF copilot.isThinking
                                         THEN Older(@, SILENCE_TIMEOUT_MS + Quantum)
                                         ELSE SILENCE_TIMEOUT_MS + Quantum,
                     !.startupAge = Older(@, STARTUP_GRACE_PERIOD_MS)]
    /\ sinceStartCb' = Older(sinceStartCb, HEARTBEAT_MS + Quantum)
    /\ calls' = <<>>
    /\ ev' = "tick"
    /\ obs' = "none"
    /\ UNCHANGED <<logVars, focused, seenLog>>

\* new VSCodeCopilotDetector(context): lastActivityTime = 0 is older than any
\* timeout, startupTime = Date.now()
CopilotNew ==
    copilot = [poller |-> null, pollers |-> <<>>, starting |-> 0, currentSize |-> 0,
               isThinking |-> FALSE,
               lastActivityAge |-> SILENCE_TIMEOUT_MS + Quantum, startupAge |-> 0]

CopilotInit ==
    /\ CopilotNew
    /\ focused \in BOOLEAN
    /\ seenLog = FALSE
    /\ logFile \in {Absent, <<"x", "nl">>}
    /\ handed = IF logFile = Absent THEN <<>> ELSE Zeros(Len(logFile))

(***************************************************************************)
(* detectors/AntigravityDetector.ts                                        *)
(***************************************************************************)

\* The texts of a line of Antigravity.log, one character each: "P" is
\* 'Requesting planner', "R123" and "R456" are the request lines
\* ' 123 http_helpers.go ... streamGenerateContent' and the same of PID 456,
\* "K" is a stop keyword ('PathsToReview' or 'BlockedOnUser'), "x" any other
\* text.  The lines the log gains while it is polled: one intent, the
\* requests of one PID, a stop keyword, other text.
AntiPieces ==
    { <<"P", "nl">>, <<"R123", "nl">>, <<"K", "nl">>, <<"x", "nl">> }

\* line.includes('streamGenerateContent')
IsRequestLine(line) == Includes(line, "R123") \/ Includes(line, "R456")

\* line.match(/\s(\d+)\s+http_helpers\.go/), parsed: null, or <<pid>> of the
\* first match
MatchPid(line) ==
    IF IsRequestLine(line)
    THEN LET i == CHOOSE j \in DOMAIN line :
                     /\ line[j] \in {"R123", "R456"}
                     /\ \A k \in 1..(j - 1) : line[k] \notin {"R123", "R456"}
         IN  IF line[i] = "R123" THEN <<123>> ELSE <<456>>
    ELSE null

\* a run of a handler: the detector's fields, the callbacks invoked so far
AntiRun(d) ==
    [currentLogPath |-> d.currentLogPath, poller |-> d.poller, pollers |-> d.pollers,
     currentSize |-> d.currentSize, activePid |-> d.activePid,
     hasPendingUserRequest |-> d.hasPendingUserRequest,
     lastLogAge |-> d.lastLogAge, calls |-> <<>>]

AntiFields(r) ==
    [currentLogPath |-> r.currentLogPath, poller |-> r.poller, pollers |-> r.pollers,
     currentSize |-> r.currentSize, activePid |-> r.activePid,
     hasPendingUserRequest |-> r.hasPendingUserRequest,
     lastLogAge |-> r.lastLogAge]

\* a fireStop() that keeps the active PID
FireStopKeepsPid(r) ==
    [r EXCEPT !.lastLogAge = LOG_TIMEOUT_MS + Quantum,
              !.calls = Append(@, "onThinkingStop")]

\* fireStop(): lastLogTime = 0 is older than any timeout
FireStop(r) ==
    [r EXCEPT !.activePid = null,
              !.lastLogAge = LOG_TIMEOUT_MS + Quantum,
              !.calls = Append(@, "onThinkingStop")]

\* a loop body that does not compare a request line's PID with the active one
AnalyzeLineNoDuplicateCheck(r, line) ==
    IF \A i \in DOMAIN line : IsSpace(line[i]) THEN r
    ELSE
    LET r1 == IF Includes(line, "P")
              THEN [r EXCEPT !.hasPendingUserRequest = TRUE,
                             !.lastLogAge = 0,
                             !.calls = Append(@, "onThinkingStart")]
              ELSE r
        pid == MatchPid(line)
    IN  IF ~IsRequestLine(line) THEN r1
        ELSE IF r1.hasPendingUserRequest
        THEN IF pid # null
             THEN [r1 EXCEPT !.activePid = pid,
                             !.lastLogAge = 0,
                             !.hasPendingUserRequest = FALSE,
                             !.calls = Append(@, "onThinkingStart")]
             ELSE r1
        ELSE IF r1.activePid # null THEN FireStop(r1)
        ELSE r1

\* a loop body that adopts the PID and leaves the intent pending
AnalyzeLineKeepsIntent(r, line) ==
    IF \A i \in DOMAIN line : IsSpace(line[i]) THEN r
    ELSE
    LET r1 == IF Includes(line, "P")
              THEN [r EXCEPT !.hasPendingUserRequest = TRUE,
                             !.lastLogAge = 0,
                             !.calls = Append(@, "onThinkingStart")]
              ELSE r
        pid == MatchPid(line)
    IN  IF ~IsRequestLine(line) THEN r1
        ELSE IF r1.hasPendingUserRequest
        THEN IF pid # null /\ pid # r1.activePid
             THEN [r1 EXCEPT !.activePid = pid,
                             !.lastLogAge = 0,
                             !.calls = Append(@, "onThinkingStart")]
             ELSE r1
        ELSE IF pid # null /\ pid = r1.activePid THEN r1
        ELSE IF r1.activePid # null THEN FireStop(r1)
        ELSE r1

\* analyzeChunk: the body of the loop, for one line
AnalyzeLine(r, line) ==
    IF \A i \in DOMAIN line : IsSpace(line[i]) THEN r
    ELSE
    LET r1 == IF Includes(line, "P")
              THEN [r EXCEPT !.hasPendingUserRequest = TRUE,
                             !.lastLogAge = 0,
                             !.calls = Append(@, "onThinkingStart")]
              ELSE r
        pid == MatchPid(line)
    IN  IF ~IsRequestLine(line) THEN r1
        ELSE IF r1.hasPendingUserRequest
        THEN IF pid # null /\ pid # r1.activePid
             THEN [r1 EXCEPT !.activePid = pid,
                             !.lastLogAge = 0,
                             !.hasPendingUserRequest = FALSE,
                             !.calls = Append(@, "onThinkingStart")]
             ELSE r1
        ELSE IF pid # null /\ pid = r1.activePid THEN r1
        ELSE IF r1.activePid # null THEN FireStop(r1)
        ELSE r1

RECURSIVE AnalyzeLines(_, _)
AnalyzeLines(r, lines) ==
    IF lines = <<>> THEN r ELSE AnalyzeLines(AnalyzeLine(r, Head(lines)), Tail(lines))

\* an analyzeChunk whose stop keywords count only while a PID is active
AnalyzeChunkStopsActiveOnly(r, chunk) ==
    LET blank == \A i \in DOMAIN chunk : chunk[i] \in {"ws", "nl"}
        r0 == IF ~blank THEN [r EXCEPT !.lastLogAge = 0] ELSE r
        r1 == AnalyzeLines(r0, SplitLines(chunk, <<>>))
    IN  IF Includes(chunk, "K") /\ r1.activePid # null THEN FireStop(r1) ELSE r1

\* analyzeChunk
AnalyzeChunk(r, chunk) ==
    LET blank == \A i \in DOMAIN chunk : chunk[i] \in {"ws", "nl"}
        r0 == IF ~blank THEN [r EXCEPT !.lastLogAge = 0] ELSE r
        r1 == AnalyzeLines(r0, SplitLines(chunk, <<>>))
    IN  IF Includes(chunk, "K") THEN FireStop(r1) ELSE r1

\* checkWatchdog()
CheckWatchdog(r) ==
    IF r.activePid # null /\ r.lastLogAge > LOG_TIMEOUT_MS THEN FireStop(r) ELSE r

\* a checkLogs that never looks for the log
AntiCheckLogsSyncNoLocate(r, file, ioOk) ==
    IF ~ioOk THEN [r EXCEPT !.currentLogPath = null]
    ELSE IF r.currentLogPath = null THEN r
    ELSE IF file = Absent THEN [r EXCEPT !.currentLogPath = null]
    ELSE IF Len(file) < r.currentSize
    THEN CheckWatchdog([r EXCEPT !.currentSize = Len(file)])
    ELSE CheckWatchdog(r)

\* checkLogs when it does not read: no path yet (findLatestLogFile, latch), the
\* file gone or a failing call (catch), a file that shrank or kept its size
AntiCheckLogsSync(r, file, ioOk) ==
    IF ~ioOk THEN [r EXCEPT !.currentLogPath = null]
    ELSE IF r.currentLogPath = null
    THEN IF file = Absent THEN r
         ELSE [r EXCEPT !.currentLogPath = <<"log">>, !.currentSize = Len(file)]
    ELSE IF file = Absent THEN [r EXCEPT !.currentLogPath = null]
    ELSE IF Len(file) < r.currentSize
    THEN CheckWatchdog([r EXCEPT !.currentSize = Len(file)])
    ELSE CheckWatchdog(r)

\* checkLogs reads: the path is latched and the file is larger than recorded
AntiReads(d, file, ioOk) ==
    ioOk /\ d.currentLogPath # null /\ file # Absent /\ Len(file) > d.currentSize

\* the last offset createReadStream({start, end}) is allowed to return: end
\* itself, the option being inclusive
StreamEnd(end) == end + 1

\* checkLogs after its read of offsets rd.from .. rd.to (inclusive, as far as
\* the file reaches by then)
AntiAfterRead(r, rd, file) ==
    CheckWatchdog(AnalyzeChunk([r EXCEPT !.currentSize = rd.to],
                               Bytes(file, rd.from, StreamEnd(rd.to))))

\* what the detector observes of the log at a poll
AntiObservation(d, file, ioOk) ==
    IF ~ioOk THEN "error"
    ELSE IF d.currentLogPath = null THEN (IF file = Absent THEN "absent" ELSE "latch")
    ELSE IF file = Absent THEN "error"
    ELSE IF Len(file) > d.currentSize THEN "grow"
    ELSE IF Len(file) < d.currentSize THEN "shrink"
    ELSE "same"

\* start(): startPolling()
AntiStart ==
    /\ Len(anti.pollers) < MaxStarts
    /\ anti' = [anti EXCEPT !.poller = Armed(POLL_INTERVAL_MS),
                            !.pollers = Append(@, POLL_INTERVAL_MS)]
    /\ calls' = <<>>
    /\ ev' = "start"
    /\ obs' = "none"
    /\ UNCHANGED <<reads, logVars, sinceStartCb>>

\* stop(), on the fields d
AntiStopped(d) ==
    IF d.poller # null
    THEN [d EXCEPT !.pollers = Cleared(@, d.poller), !.poller = null]
    ELSE d

\* stop()
AntiStop ==
    /\ anti' = AntiStopped(anti)
    /\ calls' = <<>>
    /\ ev' = "stop"
    /\ obs' = "none"
    /\ UNCHANGED <<reads, logVars, sinceStartCb>>

\* the setInterval callback of startPolling: checkLogs(), to its end or to
\* its await of the read stream
AntiPoll ==
    /\ AnyDue(anti.pollers)
    /\ \E ioOk \in BOOLEAN :
          LET d == [anti EXCEPT
                      !.pollers = Append(Without(@, 0), POLL_INTERVAL_MS),
                      !.poller = IF Due(@) THEN Armed(POLL_INTERVAL_MS) ELSE @]
          IN  /\ obs' = AntiObservation(d, logFile, ioOk)
              /\ IF AntiReads(d, logFile, ioOk)
                 THEN /\ Len(reads) < MaxReads
                      /\ reads' = Append(reads, [from |-> d.currentSize,
                                                 to |-> Len(logFile)])
                      /\ anti' = d
                      /\ calls' = <<>>
                 ELSE LET r == AntiCheckLogsSync(AntiRun(d), logFile, ioOk)
                      IN  /\ anti' = AntiFields(r)
                          /\ calls' = r.calls
                          /\ reads' = reads
    /\ sinceStartCb' = StartCbAfter(calls')
    /\ ev' = "poll"
    /\ UNCHANGED logVars

\* a suspended checkLogs resumes: its stream has ended (ioOk) or has failed;
\* k is the one of the suspended calls that resumes
AntiReadDoneOf(k, ioOk) ==
    LET rd == reads[k]
        r == IF ioOk /\ logFile # Absent
             THEN AntiAfterRead(AntiRun(anti), rd, logFile)
             ELSE [AntiRun(anti) EXCEPT !.currentLogPath = null]
    IN  /\ reads' = [i \in 1..(Len(reads) - 1) |->
                       IF i < k THEN reads[i] ELSE reads[i + 1]]
        /\ anti' = AntiFields(r)
        /\ calls' = r.calls
        /\ obs' = IF ioOk /\ logFile # Absent THEN "read" ELSE "error"
        /\ handed' = IF ioOk /\ logFile # Absent
                     THEN HandedMore(handed, rd.from, StreamEnd(rd.to))
                     ELSE handed
        /\ sinceStartCb' = StartCbAfter(calls')
        /\ ev' = "readDone"
        /\ UNCHANGED logFile

AntiReadDone ==
    \E k \in DOMAIN reads : \E ioOk \in BOOLEAN : AntiReadDoneOf(k, ioOk)

\* Antigravity.log gains a line
AntiAppend ==
    /\ AppendLog(AntiPieces)
    /\ calls' = <<>>
    /\ ev' = "env"
    /\ obs' = "none"
    /\ UNCHANGED <<antiVars, sinceStartCb>>

\* the lines of a turn and of a background request: an intent, the request
\* of PID 123, a request of PID 456
AntiScenarioPieces ==
    { <<"P", "nl">>, <<"R123", "nl">>, <<"R456", "nl">> }

\* Antigravity.log gains one of them, let grow to MaxScenarioLines lines
AntiAppendScenario ==
    /\ AppendLogUpTo(AntiScenarioPieces, MaxScenarioLines)
    /\ calls' = <<>>
    /\ ev' = "env"
    /\ obs' = "none"
    /\ UNCHANGED <<antiVars, sinceStartCb>>

AntiTruncate ==
    /\ TruncateLog
    /\ calls' = <<>>
    /\ ev' = "env"
    /\ obs' = "none"
    /\ UNCHANGED <<antiVars, sinceStartCb>>

AntiDelete ==
    /\ DeleteLog
    /\ calls' = <<>>
    /\ ev' = "env"
    /\ obs' = "none"
    /\ UNCHANGED <<antiVars, sinceStartCb>>

AntiCreate ==
    /\ CreateLog
    /\ calls' = <<>>
    /\ ev' = "env"
    /\ obs' = "none"
    /\ UNCHANGED <<antiVars, sinceStartCb>>

\* POLL_INTERVAL_MS pass with no handler running.  lastLogTime is read only
\* while activePid is set (checkWatchdog) and the line that sets activePid
\* writes it first, so its age is followed only while activePid is set and
\* is the saturated one otherwise.
AntiTick ==
    /\ ~AnyDue(anti.pollers)
    /\ anti' = [anti EXCEPT
                  !.pollers = ElapseAll(@),
                  !.poller = Elapse(@),
                  !.lastLogAge = IF anti.activePid # null
                                 THEN Older(@, LOG_TIMEOUT_MS + Quantum)
                                 ELSE LOG_TIMEOUT_MS + Quantum]
    /\ sinceStartCb' = Older(sinceStartCb, HEARTBEAT_MS + Quantum)
    /\ calls' = <<>>
    /\ ev' = "tick"
    /\ obs' = "none"
    /\ UNCHANGED <<reads, logVars>>

\* new AntigravityDetector()
AntiNew ==
    anti = [currentLogPath |-> null, poller |-> null, pollers |-> <<>>,
            currentSize |-> 0, activePid |-> null, hasPendingUserRequest |-> FALSE,
            lastLogAge |-> LOG_TIMEOUT_MS + Quantum]

AntiIdle ==
    /\ AntiNew
    /\ reads = <<>>

AntiInit ==
    /\ AntiIdle
    /\ logFile \in {Absent, <<"x", "nl">>}
    /\ handed = IF logFile = Absent THEN <<>> ELSE Zeros(Len(logFile))

(***************************************************************************)
(* AntigravityDetector's turns, observed: intent.since is "never" until    *)
(* the first fireStop, "stopped" from a fireStop to the next 'Requesting   *)
(* planner' line processed, "planner" from there on; intent.stale says     *)
(* that the last read adopted a PID while intent.since was "stopped"       *)
(***************************************************************************)

\* the loop of analyzeChunk observed line by line from the fields r
RECURSIVE IntentLines(_, _, _)
IntentLines(i, r, lines) ==
    IF lines = <<>> THEN i
    ELSE LET line == Head(lines)
             r2 == AnalyzeLine(r, line)
             blank == \A j \in DOMAIN line : IsSpace(line[j])
             since1 == IF ~blank /\ Includes(line, "P") THEN "planner" ELSE i.since
             adopted == r2.activePid # null /\ r2.activePid # r.activePid
             stopped == /\ Len(r2.calls) > Len(r.calls)
                        /\ r2.calls[Len(r2.calls)] = "onThinkingStop"
         IN  IntentLines([since |-> IF stopped THEN "stopped" ELSE since1,
                          stale |-> i.stale \/ (adopted /\ since1 = "stopped")],
                         r2, Tail(lines))

\* analyzeChunk and the checkWatchdog that follows it, observed
IntentAfterRead(i, r, rd, file) ==
    LET chunk == Bytes(file, rd.from, StreamEnd(rd.to))
        blank == \A j \in DOMAIN chunk : chunk[j] \in {"ws", "nl"}
        r0 == IF ~blank THEN [r EXCEPT !.lastLogAge = 0, !.currentSize = rd.to]
              ELSE [r EXCEPT !.currentSize = rd.to]
        i1 == IntentLines([i EXCEPT !.stale = FALSE], r0, SplitLines(chunk, <<>>))
        r1 == AnalyzeChunk([r EXCEPT !.currentSize = rd.to], chunk)
    IN  IF Includes(chunk, "K") \/ CheckWatchdog(r1) # r1
        THEN [i1 EXCEPT !.since = "stopped"]
        ELSE i1

\* a handler that reads no line: it may have called fireStop (the watchdog)
IntentKept ==
    intent' = [since |-> IF \E j \in DOMAIN calls' : calls'[j] = "onThinkingStop"
                         THEN "stopped" ELSE intent.since,
               stale |-> FALSE]

IntentReadDone ==
    \E k \in DOMAIN reads : \E ioOk \in BOOLEAN :
        /\ AntiReadDoneOf(k, ioOk)
        /\ intent' = IF ioOk /\ logFile # Absent
                     THEN IntentAfterRead(intent, AntiRun(anti), reads[k], logFile)
                     ELSE [intent EXCEPT !.stale = FALSE]

\* the lines of a turn that is ended by a stop keyword
IntentPieces ==
    { <<"P", "nl">>, <<"R123", "nl">>, <<"K", "nl">> }

\* Antigravity.log gains one of them, let grow to MaxScenarioLines lines
IntentAppend ==
    /\ AppendLogUpTo(IntentPieces, MaxScenarioLines)
    /\ calls' = <<>>
    /\ ev' = "env"
    /\ obs' = "none"
    /\ UNCHANGED <<antiVars, sinceStartCb>>

IntentNew == intent = [since |-> "never", stale |-> FALSE]

(***************************************************************************)
(* QuotaMonitor                                                            *)
(***************************************************************************)

\* start(), up to its await of findAllProcesses()
QuotaStart ==
    /\ quota.starting + Len(quota.intervals) < MaxStarts
    /\ quota' = [quota EXCEPT !.starting = @ + 1]
    /\ quotaStopped' = FALSE
    /\ calls' = <<>>
    /\ ev' = "quotaStart"

\* start(), after its awaits: found says whether pgrep found a process, n is
\* the number of endpoints validated
QuotaDiscovered ==
    /\ quota.starting > 0
    /\ \E found \in BOOLEAN : \E n \in 0..MaxTargets :
          quota' = IF ~found THEN [quota EXCEPT !.starting = @ - 1]
                   ELSE IF n = 0
                   THEN [quota EXCEPT !.starting = @ - 1, !.monitoredTargets = 0]
                   ELSE [quota EXCEPT !.starting = @ - 1,
                                      !.monitoredTargets = n,
                                      !.pollingInterval = Armed(POLL_INTERVAL),
                                      !.intervals = Append(@, POLL_INTERVAL)]
    /\ calls' = <<>>
    /\ ev' = "quotaDiscovered"
    /\ UNCHANGED quotaStopped

\* stop(), on the fields q
QuotaStopped(q) ==
    IF q.pollingInterval # null
    THEN [q EXCEPT !.intervals = Cleared(@, q.pollingInterval), !.pollingInterval = null]
    ELSE q

\* stop()
QuotaStop ==
    /\ quota' = QuotaStopped(quota)
    /\ quotaStopped' = TRUE
    /\ calls' = <<>>
    /\ ev' = "quotaStop"

\* the setInterval callback: pollTargets(), up to its first await; polls
\* holds, for each suspended pollTargets, the targets it has yet to fetch
QuotaPoll ==
    /\ AnyDue(quota.intervals)
    /\ Len(quota.polls) < MaxPolls
    /\ quota' = [quota EXCEPT
                   !.intervals = Append(Without(@, 0), POLL_INTERVAL),
                   !.pollingInterval = IF Due(@) THEN Armed(POLL_INTERVAL) ELSE @,
                   !.polls = IF quota.monitoredTargets > 0
                             THEN Append(@, quota.monitoredTargets - 1)
                             ELSE @]
    /\ calls' = IF quota.monitoredTargets > 0 THEN <<"fetchQuota">> ELSE <<>>
    /\ ev' = "quotaPoll"
    /\ UNCHANGED quotaStopped

\* a suspended pollTargets() resumes: its fetch has settled, it fetches the
\* next target or ends
QuotaFetched ==
    /\ \E k \in DOMAIN quota.polls :
          /\ quota' = [quota EXCEPT
                         !.polls = IF quota.polls[k] > 0
                                   THEN [@ EXCEPT ![k] = @ - 1]
                                   ELSE [i \in 1..(Len(@) - 1) |->
                                           IF i < k THEN @[i] ELSE @[i + 1]]]
          /\ calls' = IF quota.polls[k] > 0 THEN <<"fetchQuota">> ELSE <<>>
    /\ ev' = "quotaFetched"
    /\ UNCHANGED quotaStopped

\* POLL_INTERVAL pass with no handler running
QuotaTick ==
    /\ ~AnyDue(quota.intervals)
    /\ quota.intervals # <<>>
    /\ quota' = [quota EXCEPT !.intervals = ElapseAll(@),
                              !.pollingInterval = Elapse(@)]
    /\ calls' = <<>>
    /\ ev' = "tick"
    /\ UNCHANGED quotaStopped

\* new QuotaMonitor()
QuotaNew ==
    /\ quota = [pollingInterval |-> null, intervals |-> <<>>, starting |-> 0,
                monitoredTargets |-> 0, polls |-> <<>>]
    /\ quotaStopped = FALSE

(***************************************************************************)
(* Specifications                                                          *)
(***************************************************************************)

\* the state of the parts a specification leaves alone
AggIdle ==
    /\ isThinking = FALSE /\ isAIEnabled = TRUE /\ activityTimer = null
    /\ timeouts = <<>> /\ togglePending = 0
    /\ sincePulse = ACTIVITY_TIMEOUT_MS /\ steady = FALSE
    /\ lastCommand = "none"

CursorIdle ==
    /\ cursor = [heartbeatInterval |-> null, stopDebounceTimer |-> null,
                 intervals |-> <<>>, debounces |-> <<>>, watcher |-> null,
                 listeners |-> 0]
    /\ stateFile = <<"idle">>
    /\ mtimeChanged = FALSE
    /\ sinceStopObs = null

LogIdle ==
    /\ logFile = Absent
    /\ handed = <<>>

CopilotIdle ==
    /\ CopilotNew
    /\ focused = TRUE
    /\ seenLog = FALSE

\* extension.ts alone, its detector an arbitrary source of callbacks
Init ==
    /\ ev = "activate"
    /\ calls = <<>>
    /\ obs = "none"
    /\ sinceStartCb = HEARTBEAT_MS + Quantum
    /\ AggInit
    /\ QuotaNew
    /\ IntentNew
    /\ CursorIdle
    /\ LogIdle
    /\ CopilotIdle
    /\ AntiIdle

Next ==
    \/ OnThinkingStart /\ UNCHANGED <<intentVars, quotaVars, obsVars, cursorVars, logVars, copilotVars, antiVars>>
    \/ OnThinkingStop /\ UNCHANGED <<intentVars, quotaVars, obsVars, cursorVars, logVars, copilotVars, antiVars>>
    \/ ActivityTimeout /\ UNCHANGED <<intentVars, quotaVars, obsVars, cursorVars, logVars, copilotVars, antiVars>>
    \/ CmdStart /\ UNCHANGED <<intentVars, quotaVars, obsVars, cursorVars, logVars, copilotVars, antiVars>>
    \/ CmdPause /\ UNCHANGED <<intentVars, quotaVars, obsVars, cursorVars, logVars, copilotVars, antiVars>>
    \/ CmdToggleAI /\ UNCHANGED <<intentVars, quotaVars, obsVars, cursorVars, logVars, copilotVars, antiVars>>
    \/ ToggleAIResume /\ UNCHANGED <<intentVars, quotaVars, obsVars, cursorVars, logVars, copilotVars, antiVars>>
    \/ AggTick /\ UNCHANGED <<intentVars, quotaVars, obsVars, cursorVars, logVars, copilotVars, antiVars>>

Spec == Init /\ [][Next]_vars

\* extension.ts with the event loop running: time passes, a due timer fires
\* and a settled promise resumes its continuation
SpecPassing ==
    /\ Init
    /\ [][Next]_vars
    /\ WF_vars(AggTick /\ UNCHANGED <<intentVars, quotaVars, obsVars, cursorVars, logVars, copilotVars, antiVars>>)
    /\ WF_vars(ActivityTimeout /\ UNCHANGED <<intentVars, quotaVars, obsVars, cursorVars, logVars, copilotVars, antiVars>>)
    /\ WF_vars(ToggleAIResume /\ UNCHANGED <<intentVars, quotaVars, obsVars, cursorVars, logVars, copilotVars, antiVars>>)

\* CursorDetector alone, its callbacks recorded in calls
InitCursor ==
    /\ ev = "new"
    /\ calls = <<>>
    /\ obs = "none"
    /\ sinceStartCb = HEARTBEAT_MS + Quantum
    /\ AggIdle
    /\ QuotaNew
    /\ IntentNew
    /\ CursorInit
    /\ LogIdle
    /\ CopilotIdle
    /\ AntiIdle

NextCursor ==
    \/ CursorStart /\ UNCHANGED <<intentVars, quotaVars, aggVars, logVars, copilotVars, antiVars>>
    \/ CursorStop /\ UNCHANGED <<intentVars, quotaVars, aggVars, logVars, copilotVars, antiVars>>
    \/ WriteStateFile /\ UNCHANGED <<intentVars, quotaVars, aggVars, logVars, copilotVars, antiVars>>
    \/ DeleteStateFile /\ UNCHANGED <<intentVars, quotaVars, aggVars, logVars, copilotVars, antiVars>>
    \/ WatchPoll /\ UNCHANGED <<intentVars, quotaVars, aggVars, logVars, copilotVars, antiVars>>
    \/ HeartbeatFire /\ UNCHANGED <<intentVars, quotaVars, aggVars, logVars, copilotVars, antiVars>>
    \/ DebounceFire /\ UNCHANGED <<intentVars, quotaVars, aggVars, logVars, copilotVars, antiVars>>
    \/ CursorTick /\ UNCHANGED <<intentVars, quotaVars, aggVars, logVars, copilotVars, antiVars>>

SpecCursor == InitCursor /\ [][NextCursor]_vars

\* VSCodeCopilotDetector alone, its callbacks recorded in calls; start() is
\* called only on a detector that is not running
InitCopilot ==
    /\ ev = "new"
    /\ calls = <<>>
    /\ obs = "none"
    /\ sinceStartCb = HEARTBEAT_MS + Quantum
    /\ AggIdle
    /\ QuotaNew
    /\ IntentNew
    /\ CursorIdle
    /\ CopilotInit
    /\ AntiIdle

NextCopilot ==
    \/ /\ copilot.starting = 0 /\ copilot.pollers = <<>>
       /\ CopilotStart /\ UNCHANGED <<intentVars, quotaVars, aggVars, cursorVars, antiVars>>
    \/ CopilotStartPolling /\ UNCHANGED <<intentVars, quotaVars, aggVars, cursorVars, antiVars>>
    \/ CopilotStop /\ UNCHANGED <<intentVars, quotaVars, aggVars, cursorVars, antiVars>>
    \/ CopilotPoll /\ UNCHANGED <<intentVars, quotaVars, aggVars, cursorVars, antiVars>>
    \/ CopilotAppend /\ UNCHANGED <<intentVars, quotaVars, aggVars, cursorVars, antiVars>>
    \/ CopilotTruncate /\ UNCHANGED <<intentVars, quotaVars, aggVars, cursorVars, antiVars>>
    \/ CopilotDelete /\ UNCHANGED <<intentVars, quotaVars, aggVars, cursorVars, antiVars>>
    \/ CopilotCreate /\ UNCHANGED <<intentVars, quotaVars, aggVars, cursorVars, antiVars>>
    \/ FocusChange /\ UNCHANGED <<intentVars, quotaVars, aggVars, cursorVars, antiVars>>
    \/ CopilotTick /\ UNCHANGED <<intentVars, quotaVars, aggVars, cursorVars, antiVars>>

SpecCopilot == InitCopilot /\ [][NextCopilot]_vars

\* VSCodeCopilotDetector started once over a log that exists and only grows,
\* long enough for a start marker and a completion marker to be read in
\* two polls after the poll that records the size found
InitCopilotScenario ==
    /\ ev = "new"
    /\ calls = <<>>
    /\ obs = "none"
    /\ sinceStartCb = HEARTBEAT_MS + Quantum
    /\ AggIdle
    /\ QuotaNew
    /\ IntentNew
    /\ CursorIdle
    /\ CopilotNew
    /\ focused \in BOOLEAN
    /\ seenLog = FALSE
    /\ logFile = <<"x", "nl">>
    /\ handed = Zeros(Len(logFile))
    /\ AntiIdle

NextCopilotScenario ==
    \/ /\ copilot.starting = 0 /\ copilot.pollers = <<>>
       /\ CopilotStart /\ UNCHANGED <<intentVars, quotaVars, aggVars, cursorVars, antiVars>>
    \/ CopilotStartPolling /\ UNCHANGED <<intentVars, quotaVars, aggVars, cursorVars, antiVars>>
    \/ CopilotPoll /\ UNCHANGED <<intentVars, quotaVars, aggVars, cursorVars, antiVars>>
    \/ CopilotAppendScenario /\ UNCHANGED <<intentVars, quotaVars, aggVars, cursorVars, antiVars>>
    \/ FocusChange /\ UNCHANGED <<intentVars, quotaVars, aggVars, cursorVars, antiVars>>
    \/ CopilotTick /\ UNCHANGED <<intentVars, quotaVars, aggVars, cursorVars, antiVars>>

SpecCopilotScenario == InitCopilotScenario /\ [][NextCopilotScenario]_vars

\* the same detector over a log whose writer may be caught between the two
\* writes of a line
NextCopilotPartial ==
    \/ /\ copilot.starting = 0 /\ copilot.pollers = <<>>
       /\ CopilotStart /\ UNCHANGED <<intentVars, quotaVars, aggVars, cursorVars, antiVars>>
    \/ CopilotStartPolling /\ UNCHANGED <<intentVars, quotaVars, aggVars, cursorVars, antiVars>>
    \/ CopilotPoll /\ UNCHANGED <<intentVars, quotaVars, aggVars, cursorVars, antiVars>>
    \/ CopilotAppendPartial /\ UNCHANGED <<intentVars, quotaVars, aggVars, cursorVars, antiVars>>
    \/ FocusChange /\ UNCHANGED <<intentVars, quotaVars, aggVars, cursorVars, antiVars>>
    \/ CopilotTick /\ UNCHANGED <<intentVars, quotaVars, aggVars, cursorVars, antiVars>>

SpecCopilotPartial == InitCopilotScenario /\ [][NextCopilotPartial]_vars

\* AntigravityDetector alone, its callbacks recorded in calls; start() is
\* called only on a detector that is not running
InitAntigravity ==
    /\ ev = "new"
    /\ calls = <<>>
    /\ obs = "none"
    /\ sinceStartCb = HEARTBEAT_MS + Quantum
    /\ AggIdle
    /\ QuotaNew
    /\ IntentNew
    /\ CursorIdle
    /\ CopilotIdle
    /\ AntiInit

NextAntigravity ==
    \/ /\ anti.pollers = <<>>
       /\ AntiStart /\ UNCHANGED <<intentVars, quotaVars, aggVars, cursorVars, copilotVars>>
    \/ AntiStop /\ UNCHANGED <<intentVars, quotaVars, aggVars, cursorVars, copilotVars>>
    \/ AntiPoll /\ UNCHANGED <<intentVars, quotaVars, aggVars, cursorVars, copilotVars>>
    \/ AntiReadDone /\ UNCHANGED <<intentVars, quotaVars, aggVars, cursorVars, copilotVars>>
    \/ AntiAppend /\ UNCHANGED <<intentVars, quotaVars, aggVars, cursorVars, copilotVars>>
    \/ AntiTruncate /\ UNCHANGED <<intentVars, quotaVars, aggVars, cursorVars, copilotVars>>
    \/ AntiDelete /\ UNCHANGED <<intentVars, quotaVars, aggVars, cursorVars, copilotVars>>
    \/ AntiCreate /\ UNCHANGED <<intentVars, quotaVars, aggVars, cursorVars, copilotVars>>
    \/ AntiTick /\ UNCHANGED <<intentVars, quotaVars, aggVars, cursorVars, copilotVars>>

SpecAntigravity == InitAntigravity /\ [][NextAntigravity]_vars

\* AntigravityDetector started once over a log that exists, empty, and only
\* grows, by the lines of a turn and of a request of another PID
InitAntigravityScenario ==
    /\ ev = "new"
    /\ calls = <<>>
    /\ obs = "none"
    /\ sinceStartCb = HEARTBEAT_MS + Quantum
    /\ AggIdle
    /\ QuotaNew
    /\ IntentNew
    /\ CursorIdle
    /\ CopilotIdle
    /\ AntiIdle
    /\ logFile = <<>>
    /\ handed = <<>>

NextAntigravityScenario ==
    \/ /\ anti.pollers = <<>>
       /\ AntiStart /\ UNCHANGED <<intentVars, quotaVars, aggVars, cursorVars, copilotVars>>
    \/ AntiPoll /\ UNCHANGED <<intentVars, quotaVars, aggVars, cursorVars, copilotVars>>
    \/ AntiReadDone /\ UNCHANGED <<intentVars, quotaVars, aggVars, cursorVars, copilotVars>>
    \/ AntiAppendScenario /\ UNCHANGED <<intentVars, quotaVars, aggVars, cursorVars, copilotVars>>
    \/ AntiTick /\ UNCHANGED <<intentVars, quotaVars, aggVars, cursorVars, copilotVars>>

SpecAntigravityScenario == InitAntigravityScenario /\ [][NextAntigravityScenario]_vars

\* AntigravityDetector started once over a log that exists, empty, and only
\* grows, by the lines of a turn ended by a stop keyword; its turns observed
NextAntigravityIntent ==
    \/ /\ anti.pollers = <<>>
       /\ AntiStart /\ IntentKept /\ UNCHANGED <<quotaVars, aggVars, cursorVars, copilotVars>>
    \/ AntiPoll /\ IntentKept /\ UNCHANGED <<quotaVars, aggVars, cursorVars, copilotVars>>
    \/ IntentReadDone /\ UNCHANGED <<quotaVars, aggVars, cursorVars, copilotVars>>
    \/ IntentAppend /\ IntentKept /\ UNCHANGED <<quotaVars, aggVars, cursorVars, copilotVars>>
    \/ AntiTick /\ IntentKept /\ UNCHANGED <<quotaVars, aggVars, cursorVars, copilotVars>>

SpecAntigravityIntent == InitAntigravityScenario /\ [][NextAntigravityIntent]_vars

\* activate(): the one detector that appName selects is constructed, and it
\* alone is started and stopped
OnlyCursor == CopilotNew /\ AntiNew

OnlyCopilot == cursor.listeners = 0 /\ AntiNew

OnlyAntigravity == cursor.listeners = 0 /\ CopilotNew

\* The life cycle of each detector, start() and stop() called any number of
\* times in any order, over a sentinel file and a log that nothing writes
InitLifecycle ==
    /\ ev = "new"
    /\ calls = <<>>
    /\ obs = "none"
    /\ sinceStartCb = HEARTBEAT_MS + Quantum
    /\ AggIdle
    /\ QuotaNew
    /\ IntentNew
    /\ CursorInit
    /\ CopilotIdle
    /\ AntiInit

NextLifecycle ==
    \/ OnlyCursor /\ CursorStart /\ UNCHANGED <<intentVars, quotaVars, aggVars, logVars, copilotVars, antiVars>>
    \/ OnlyCursor /\ CursorStop /\ UNCHANGED <<intentVars, quotaVars, aggVars, logVars, copilotVars, antiVars>>
    \/ OnlyCursor /\ HeartbeatFire /\ UNCHANGED <<intentVars, quotaVars, aggVars, logVars, copilotVars, antiVars>>
    \/ OnlyCursor /\ CursorTick /\ UNCHANGED <<intentVars, quotaVars, aggVars, logVars, copilotVars, antiVars>>
    \/ OnlyCopilot /\ CopilotStart /\ UNCHANGED <<intentVars, quotaVars, aggVars, cursorVars, antiVars>>
    \/ OnlyCopilot /\ CopilotStartPolling /\ UNCHANGED <<intentVars, quotaVars, aggVars, cursorVars, antiVars>>
    \/ OnlyCopilot /\ CopilotStop /\ UNCHANGED <<intentVars, quotaVars, aggVars, cursorVars, antiVars>>
    \/ OnlyCopilot /\ CopilotPoll /\ UNCHANGED <<intentVars, quotaVars, aggVars, cursorVars, antiVars>>
    \/ OnlyCopilot /\ CopilotTick /\ UNCHANGED <<intentVars, quotaVars, aggVars, cursorVars, antiVars>>
    \/ OnlyAntigravity /\ AntiStart /\ UNCHANGED <<intentVars, quotaVars, aggVars, cursorVars, copilotVars>>
    \/ OnlyAntigravity /\ AntiStop /\ UNCHANGED <<intentVars, quotaVars, aggVars, cursorVars, copilotVars>>
    \/ OnlyAntigravity /\ AntiPoll /\ UNCHANGED <<intentVars, quotaVars, aggVars, cursorVars, copilotVars>>
    \/ OnlyAntigravity /\ AntiTick /\ UNCHANGED <<intentVars, quotaVars, aggVars, cursorVars, copilotVars>>

SpecLifecycle == InitLifecycle /\ [][NextLifecycle]_vars

\* activate(): the detector that appName selects is constructed and started,
\* once, and runs in its environment until the extension is deactivated; the
\* other two detectors do not exist
UsingCursor == CopilotIdle /\ AntiIdle /\ LogIdle

UsingCopilot == CursorIdle /\ AntiIdle

UsingAntigravity == CursorIdle /\ CopilotIdle

InitDetectors == InitCursor \/ InitCopilot \/ InitAntigravity

NextDetectors ==
    \/ UsingCursor /\ cursor.listeners = 0 /\ CursorStart /\ UNCHANGED <<intentVars, quotaVars, aggVars, logVars, copilotVars, antiVars>>
    \/ UsingCursor /\ cursor.listeners > 0 /\ WriteStateFile /\ UNCHANGED <<intentVars, quotaVars, aggVars, logVars, copilotVars, antiVars>>
    \/ UsingCursor /\ cursor.listeners > 0 /\ DeleteStateFile /\ UNCHANGED <<intentVars, quotaVars, aggVars, logVars, copilotVars, antiVars>>
    \/ UsingCursor /\ cursor.listeners > 0 /\ WatchPoll /\ UNCHANGED <<intentVars, quotaVars, aggVars, logVars, copilotVars, antiVars>>
    \/ UsingCursor /\ cursor.listeners > 0 /\ HeartbeatFire /\ UNCHANGED <<intentVars, quotaVars, aggVars, logVars, copilotVars, antiVars>>
    \/ UsingCursor /\ cursor.listeners > 0 /\ DebounceFire /\ UNCHANGED <<intentVars, quotaVars, aggVars, logVars, copilotVars, antiVars>>
    \/ UsingCursor /\ cursor.listeners > 0 /\ CursorTick /\ UNCHANGED <<intentVars, quotaVars, aggVars, logVars, copilotVars, antiVars>>
    \/ UsingCopilot /\ CopilotNew /\ CopilotStart /\ UNCHANGED <<intentVars, quotaVars, aggVars, cursorVars, antiVars>>
    \/ UsingCopilot /\ ~CopilotNew /\ CopilotStartPolling /\ UNCHANGED <<intentVars, quotaVars, aggVars, cursorVars, antiVars>>
    \/ UsingCopilot /\ ~CopilotNew /\ CopilotPoll /\ UNCHANGED <<intentVars, quotaVars, aggVars, cursorVars, antiVars>>
    \/ UsingCopilot /\ ~CopilotNew /\ CopilotAppend /\ UNCHANGED <<intentVars, quotaVars, aggVars, cursorVars, antiVars>>
    \/ UsingCopilot /\ ~CopilotNew /\ CopilotTruncate /\ UNCHANGED <<intentVars, quotaVars, aggVars, cursorVars, antiVars>>
    \/ UsingCopilot /\ ~CopilotNew /\ CopilotDelete /\ UNCHANGED <<intentVars, quotaVars, aggVars, cursorVars, antiVars>>
    \/ UsingCopilot /\ ~CopilotNew /\ CopilotCreate /\ UNCHANGED <<intentVars, quotaVars, aggVars, cursorVars, antiVars>>
    \/ UsingCopilot /\ ~CopilotNew /\ FocusChange /\ UNCHANGED <<intentVars, quotaVars, aggVars, cursorVars, antiVars>>
    \/ UsingCopilot /\ ~CopilotNew /\ CopilotTick /\ UNCHANGED <<intentVars, quotaVars, aggVars, cursorVars, antiVars>>
    \/ UsingAntigravity /\ AntiNew /\ AntiStart /\ UNCHANGED <<intentVars, quotaVars, aggVars, cursorVars, copilotVars>>
    \/ UsingAntigravity /\ ~AntiNew /\ AntiPoll /\ UNCHANGED <<intentVars, quotaVars, aggVars, cursorVars, copilotVars>>
    \/ UsingAntigravity /\ ~AntiNew /\ AntiReadDone /\ UNCHANGED <<intentVars, quotaVars, aggVars, cursorVars, copilotVars>>
    \/ UsingAntigravity /\ ~AntiNew /\ AntiAppend /\ UNCHANGED <<intentVars, quotaVars, aggVars, cursorVars, copilotVars>>
    \/ UsingAntigravity /\ ~AntiNew /\ AntiTruncate /\ UNCHANGED <<intentVars, quotaVars, aggVars, cursorVars, copilotVars>>
    \/ UsingAntigravity /\ ~AntiNew /\ AntiDelete /\ UNCHANGED <<intentVars, quotaVars, aggVars, cursorVars, copilotVars>>
    \/ UsingAntigravity /\ ~AntiNew /\ AntiCreate /\ UNCHANGED <<intentVars, quotaVars, aggVars, cursorVars, copilotVars>>
    \/ UsingAntigravity /\ ~AntiNew /\ AntiTick /\ UNCHANGED <<intentVars, quotaVars, aggVars, cursorVars, copilotVars>>

SpecDetectors == InitDetectors /\ [][NextDetectors]_vars

\* a log-tail detector started before its log exists; the log is created and
\* removed and gains a line while the detector polls.  The event loop runs a
\* due interval callback and time passes (weak fairness of the polls and of
\* the clock).
LocateAppend ==
    /\ AppendLogUpTo(CopilotPieces, MaxLocateLines)
    /\ calls' = <<>>
    /\ ev' = "env"
    /\ obs' = "none"
    /\ UNCHANGED <<copilotVars, antiVars, sinceStartCb>>

InitLocate ==
    /\ ev = "new"
    /\ calls = <<>>
    /\ obs = "none"
    /\ sinceStartCb = HEARTBEAT_MS + Quantum
    /\ AggIdle
    /\ QuotaNew
    /\ IntentNew
    /\ CursorIdle
    /\ LogIdle
    /\ CopilotIdle
    /\ AntiIdle

LocateCopilotPoll == UsingCopilot /\ CopilotPoll /\ UNCHANGED <<intentVars, quotaVars, aggVars, cursorVars, antiVars>>

LocateCopilotTick == UsingCopilot /\ ~CopilotNew /\ CopilotTick /\ UNCHANGED <<intentVars, quotaVars, aggVars, cursorVars, antiVars>>

LocateAntiPoll == UsingAntigravity /\ AntiPoll /\ UNCHANGED <<intentVars, quotaVars, aggVars, cursorVars, copilotVars>>

LocateAntiReadDone == UsingAntigravity /\ AntiReadDone /\ UNCHANGED <<intentVars, quotaVars, aggVars, cursorVars, copilotVars>>

LocateAntiTick == UsingAntigravity /\ ~AntiNew /\ AntiTick /\ UNCHANGED <<intentVars, quotaVars, aggVars, cursorVars, copilotVars>>

NextLocate ==
    \/ UsingCopilot /\ CopilotNew /\ CopilotStart /\ UNCHANGED <<intentVars, quotaVars, aggVars, cursorVars, antiVars>>
    \/ UsingCopilot /\ CopilotStartPolling /\ UNCHANGED <<intentVars, quotaVars, aggVars, cursorVars, antiVars>>
    \/ LocateCopilotPoll
    \/ LocateCopilotTick
    \/ UsingCopilot /\ ~CopilotNew /\ CopilotCreate /\ UNCHANGED <<intentVars, quotaVars, aggVars, cursorVars, antiVars>>
    \/ UsingCopilot /\ ~CopilotNew /\ CopilotDelete /\ UNCHANGED <<intentVars, quotaVars, aggVars, cursorVars, antiVars>>
    \/ UsingAntigravity /\ AntiNew /\ AntiStart /\ UNCHANGED <<intentVars, quotaVars, aggVars, cursorVars, copilotVars>>
    \/ LocateAntiPoll
    \/ LocateAntiReadDone
    \/ LocateAntiTick
    \/ UsingAntigravity /\ ~AntiNew /\ AntiCreate /\ UNCHANGED <<intentVars, quotaVars, aggVars, cursorVars, copilotVars>>
    \/ UsingAntigravity /\ ~AntiNew /\ AntiDelete /\ UNCHANGED <<intentVars, quotaVars, aggVars, cursorVars, copilotVars>>
    \/ (~CopilotNew \/ ~AntiNew) /\ LocateAppend /\ UNCHANGED <<intentVars, quotaVars, aggVars, cursorVars>>

SpecLocate ==
    /\ InitLocate
    /\ [][NextLocate]_vars
    /\ WF_vars(LocateCopilotPoll) /\ WF_vars(LocateCopilotTick)
    /\ WF_vars(LocateAntiPoll) /\ WF_vars(LocateAntiReadDone) /\ WF_vars(LocateAntiTick)

\* QuotaMonitor alone
InitQuota ==
    /\ ev = "new"
    /\ calls = <<>>
    /\ obs = "none"
    /\ sinceStartCb = HEARTBEAT_MS + Quantum
    /\ AggIdle
    /\ QuotaNew
    /\ IntentNew
    /\ CursorIdle
    /\ LogIdle
    /\ CopilotIdle
    /\ AntiIdle

NextQuota ==
    \/ QuotaStart /\ UNCHANGED <<intentVars, obsVars, aggVars, cursorVars, logVars, copilotVars, antiVars>>
    \/ QuotaDiscovered /\ UNCHANGED <<intentVars, obsVars, aggVars, cursorVars, logVars, copilotVars, antiVars>>
    \/ QuotaStop /\ UNCHANGED <<intentVars, obsVars, aggVars, cursorVars, logVars, copilotVars, antiVars>>
    \/ QuotaPoll /\ UNCHANGED <<intentVars, obsVars, aggVars, cursorVars, logVars, copilotVars, antiVars>>
    \/ QuotaFetched /\ UNCHANGED <<intentVars, obsVars, aggVars, cursorVars, logVars, copilotVars, antiVars>>
    \/ QuotaTick /\ UNCHANGED <<intentVars, obsVars, aggVars, cursorVars, logVars, copilotVars, antiVars>>

SpecQuota == InitQuota /\ [][NextQuota]_vars

(***************************************************************************)
(* Claims about the aggregator                                             *)
(***************************************************************************)

\* C1: with a detector that invokes the start callback at least once per
\* second for ever and no pause or toggleAI command, isThinking once true
\* stays true and the fallback timeout never runs.
C1_SteadyPulsesKeepThinking ==
    [][steady => (isThinking => isThinking') /\ ev' # "activityTimeout"]_vars

\* a steady detector has pulsed, a period has passed and the timer is pending
C1_Witness ==
    /\ steady /\ isThinking /\ ev = "tick"
    /\ sincePulse = HEARTBEAT_MS
    /\ timeouts = <<ACTIVITY_TIMEOUT_MS - HEARTBEAT_MS>>

\* C2: the pending fallback timeout is due exactly ACTIVITY_TIMEOUT_MS after
\* the last pulse; when it runs, isThinking is false, activityTimer is null,
\* no timeout is left to run a second time and exactly one pause was issued.
C2_TimeoutFiresOnce ==
    /\ ev = "activityTimeout" =>
          /\ ~isThinking
          /\ activityTimer = null
          /\ timeouts = <<>>
          /\ calls = <<"doom.stop">>
          /\ sincePulse = ACTIVITY_TIMEOUT_MS
    /\ \A i \in DOMAIN timeouts : timeouts[i] = ACTIVITY_TIMEOUT_MS - sincePulse

\* the fallback timeout has just run
C2_Witness ==
    /\ ev = "activityTimeout" /\ calls = <<"doom.stop">>
    /\ sincePulse = ACTIVITY_TIMEOUT_MS

\* C3 as stated: a pulse in the not-thinking state always calls
\* doomController.start.
C3_PulseAlwaysStartsDoom ==
    [][ev' = "onThinkingStart" =>
          /\ isThinking'
          /\ ~isThinking => calls' = <<"doom.start">>
          /\ timeouts' = <<ACTIVITY_TIMEOUT_MS>>]_vars

\* C3 (amended): a pulse makes the state thinking; doomController.start is
\* called exactly when the state was not thinking and AI integration is
\* enabled; the previous timeout is cancelled and a full-length one armed, so
\* at most one fallback timeout is pending at any time.
C3_PulseStartsAndRearms ==
    [][/\ ev' = "onThinkingStart" =>
            /\ isThinking'
            /\ calls' = IF ~isThinking /\ isAIEnabled THEN <<"doom.start">> ELSE <<>>
            /\ activityTimer' = Armed(ACTIVITY_TIMEOUT_MS)
            /\ timeouts' = <<ACTIVITY_TIMEOUT_MS>>
       /\ Len(timeouts') <= 1]_vars

\* a pulse has just turned the state to thinking with AI integration
\* enabled: the game was started and one full-length timeout is pending
C3_Witness ==
    /\ ev = "onThinkingStart" /\ calls = <<"doom.start">>
    /\ isThinking /\ isAIEnabled
    /\ activityTimer = Armed(ACTIVITY_TIMEOUT_MS)
    /\ timeouts = <<ACTIVITY_TIMEOUT_MS>>

\* C4: the detector's stop callback changes nothing and sends no command;
\* isThinking turns false only in the fallback timeout or a manual command.
C4_StopCallbackIsNoOp ==
    [][/\ ev' = "onThinkingStop" =>
            /\ UNCHANGED <<isThinking, activityTimer, timeouts, isAIEnabled>>
            /\ calls' = <<>>
       /\ isThinking /\ ~isThinking' =>
            ev' \in {"activityTimeout", "cmdPause", "toggleAIResume"}]_vars

\* the stop callback ran while thinking with the timer pending
C4_Witness ==
    /\ ev = "onThinkingStop" /\ isThinking /\ activityTimer # null
    /\ timeouts # <<>>

(***************************************************************************)
(* Claims about CursorDetector                                             *)
(***************************************************************************)

InCalls(c) == \E i \in DOMAIN calls : calls[i] = c

\* C5: a Start-class content read while Thinking with a stop debounce pending
\* cancels the debounce timer, leaves the heartbeat interval as it was and
\* invokes no callback; the stop callback runs only from a debounce timer
\* that was left to become due, so never for a Stop that was followed by a
\* Start inside the window.
C5_StartCancelsDebounce ==
    [][/\ (/\ cursor.heartbeatInterval # null
           /\ cursor.stopDebounceTimer # null
           /\ obs' = "Resume") =>
              /\ cursor'.stopDebounceTimer = null
              /\ cursor'.debounces = <<>>
              /\ cursor'.heartbeatInterval = cursor.heartbeatInterval
              /\ cursor'.intervals = cursor.intervals
              /\ calls' = <<>>
       /\ (\E i \in DOMAIN calls' : calls'[i] = "onThinkingStop") =>
              AnyDue(cursor.debounces)]_vars

\* thinking was read again while the debounce was pending
C5_Witness ==
    /\ obs = "Resume" /\ ev = "watch"
    /\ cursor.heartbeatInterval # null /\ cursor.intervals # <<>>
    /\ cursor.debounces = <<>>

\* C6: the stop callback is invoked only by the debounce timer, once
\* STOP_DEBOUNCE_MS have passed since the first Stop-class content read while
\* Thinking; the heartbeat stops in that step and no debounce timer is left
\* to invoke it again; a pending debounce timer is due exactly
\* STOP_DEBOUNCE_MS after that first read.
C6_StopAfterFullDebounce ==
    /\ InCalls("onThinkingStop") =>
          /\ ev = "debounce"
          /\ calls = <<"onThinkingStop">>
          /\ sinceStopObs = <<STOP_DEBOUNCE_MS>>
          /\ cursor.heartbeatInterval = null /\ cursor.intervals = <<>>
          /\ cursor.stopDebounceTimer = null /\ cursor.debounces = <<>>
    /\ \A i \in DOMAIN cursor.debounces :
          /\ sinceStopObs # null
          /\ cursor.debounces[i] = STOP_DEBOUNCE_MS - sinceStopObs[1]

\* the debounce timer has just run after idle stayed in the file
C6_Witness ==
    /\ ev = "debounce" /\ calls = <<"onThinkingStop">>
    /\ sinceStopObs = <<STOP_DEBOUNCE_MS>>
    /\ ~IsThinkingContent(stateFile)

\* C7: while a polling AntigravityDetector tracks a request (activePid
\* non-null) the start callback was invoked within the last HEARTBEAT_MS,
\* the period of the keep-alive that CursorDetector's heartbeat interval and
\* VSCodeCopilotDetector's poll give their Thinking states.
C7_ThinkingPulsesEveryPeriod ==
    (anti.poller # null /\ anti.activePid # null) => sinceStartCb <= HEARTBEAT_MS

\* C8: a poll of VSCodeCopilotDetector that finds no new log content and
\* ends Thinking (more than SILENCE_TIMEOUT_MS passed since the last
\* activity) invokes the stop callback exactly once.
C8_SilenceFiresStopOnce ==
    [][(/\ ev' = "poll" /\ obs' = "same"
        /\ copilot.isThinking /\ ~copilot'.isThinking) =>
          Cardinality({i \in DOMAIN calls' : calls'[i] = "onThinkingStop"}) = 1]_vars

\* C9: a poll of AntigravityDetector that finds the log smaller than the
\* recorded size records the smaller size, reads nothing, and leaves no
\* request tracked.
C9_TruncationResets ==
    [][(ev' = "poll" /\ obs' = "shrink") =>
          /\ anti'.currentSize = Len(logFile)
          /\ reads' = reads /\ handed' = handed
          /\ anti'.activePid = null]_vars

\* C10: no byte of the log has been handed to analyzeChunk more than once.
C10_NoByteHandedTwice ==
    \A i \in DOMAIN handed : handed[i] <= 1

\* C11: a poll of VSCodeCopilotDetector that finds the log larger than the
\* recorded size, after an earlier poll has found the log, hands exactly the
\* bytes from the recorded size to the new size to parseLogContent.
C11_GrowthIsHandedWhole ==
    [][(/\ ev' = "poll" /\ seenLog
        /\ obs' \notin {"absent", "error"}
        /\ Len(logFile) > copilot.currentSize) =>
          handed' = HandedMore(handed, copilot.currentSize, Len(logFile))]_vars

\* C12: a handler of AntigravityDetector that ends with the detector stopped
\* (no poll interval armed) has invoked neither the start nor the stop
\* callback.
C12_NoCallbackAfterStop ==
    (anti.poller = null /\ anti.pollers = <<>>) => calls = <<>>

\* C13: CursorDetector's stop() leaves no fs.watchFile listener, no
\* heartbeat interval and no stop-debounce timer behind.
C13_StopReleasesAll ==
    [][ev' = "stop" =>
          /\ cursor'.listeners = 0
          /\ cursor'.intervals = <<>> /\ cursor'.heartbeatInterval = null
          /\ cursor'.debounces = <<>> /\ cursor'.stopDebounceTimer = null]_vars

\* C14: for each detector, in every state of its life cycle, stop() after
\* stop() leaves the fields as the first stop() left them, and stop() on a
\* detector just constructed leaves it as constructed.
C14_StopIsIdempotent ==
    /\ CursorStopped(CursorStopped(cursor)) = CursorStopped(cursor)
    /\ CopilotStopped(CopilotStopped(copilot)) = CopilotStopped(copilot)
    /\ AntiStopped(AntiStopped(anti)) = AntiStopped(anti)
    /\ ev = "new" =>
          /\ CursorStopped(cursor) = cursor
          /\ CopilotStopped(copilot) = copilot
          /\ AntiStopped(anti) = anti

\* stop() has just run on a VSCodeCopilotDetector that had polled its log
C14_Witness ==
    /\ ev = "stop" /\ copilot.poller = null /\ copilot.pollers = <<>>
    /\ copilot.currentSize > 0

\* C15: once time has passed with a start() of VSCodeCopilotDetector still
\* waiting at its await (the log-level warning not answered), the poll
\* interval is armed all the same.
C15_StartPollsWithoutAnswer ==
    (ev = "tick" /\ copilot.starting > 0) => copilot.pollers # <<>>

\* C16: less than STARTUP_GRACE_PERIOD_MS after startupTime, the time at
\* which activate() constructs VSCodeCopilotDetector and calls its start(),
\* the detector is not Thinking and no handler has invoked the start
\* callback, whatever lines were parsed.
C16_NoStartWithinGrace ==
    copilot.startupAge < STARTUP_GRACE_PERIOD_MS =>
       /\ ~copilot.isThinking
       /\ \A i \in DOMAIN calls : calls[i] # "onThinkingStart"

\* a poll within the grace period has handed a start-marker line to
\* parseLogContent
C16_Witness ==
    /\ ev = "poll" /\ obs = "grow"
    /\ copilot.startupAge < STARTUP_GRACE_PERIOD_MS
    /\ logFile # Absent
    /\ \E i \in DOMAIN logFile : logFile[i] = "S" /\ handed[i] = 1

\* the deltas fed to parseLogContent: up to MaxLogLines whole lines
CopilotDeltas ==
    {<<>>} \cup CopilotPieces \cup {p \o q : p \in CopilotPieces, q \in CopilotPieces}

\* the lines of a delta that contain a start marker
StartLines(delta) ==
    Len(SelectSeq(SplitLines(delta, <<>>), LAMBDA line : Includes(line, "S")))

\* the Start signals parseLogContent emits for a delta, the window focused
StartsEmitted(d, delta) ==
    Len(SelectSeq(ParseLogContent(CopilotRun(d), delta, TRUE).calls,
                  LAMBDA c : c = "onThinkingStart"))

\* C17: in every state of VSCodeCopilotDetector, parseLogContent fed any
\* delta emits no more Start signals than the delta has lines with a start
\* marker; so over any sequence of deltas the Start signals never outnumber
\* the start-marker lines fed.
C17_StartsBoundedByMarkers ==
    \A delta \in CopilotDeltas : StartsEmitted(copilot, delta) <= StartLines(delta)

\* a poll has handed a delta with a start-marker line to parseLogContent,
\* which emitted a Start signal for it (the heartbeat added the second
\* callback); a completion line and another start-marker line would emit one
\* more
C17_Witness ==
    /\ ev = "poll" /\ obs = "grow" /\ copilot.isThinking
    /\ calls = <<"onThinkingStart", "onThinkingStart">>
    /\ \E i \in DOMAIN logFile : logFile[i] = "S" /\ handed[i] = 1
    /\ StartsEmitted(copilot, <<"E", "nl", "S", "nl">>) = 1

\* the marker of the last line of a delta that has one: "S", "E" or "none"
LastMarker(delta) ==
    LET at == {i \in DOMAIN delta : delta[i] \in {"S", "E"}}
    IN  IF at = {} THEN "none"
        ELSE delta[CHOOSE i \in at : \A j \in at : j <= i]

\* the content a poll of the Copilot log finds past the recorded size
CopilotDelta == Bytes(logFile, copilot.currentSize, Len(logFile))

\* C18 as stated: in VSCodeCopilotDetector, once the grace period has passed
\* a poll that reads a start-marker line leaves the detector Thinking and
\* invokes the start callback; a poll that reads a completion line after it
\* leaves the detector Idle; and a poll of an idle detector that finds no
\* new content invokes no callback.
C18_MarkersEndToEnd ==
    [][ /\ (ev' = "poll" /\ obs' = "grow" /\ LastMarker(CopilotDelta) = "S"
               /\ copilot.startupAge >= STARTUP_GRACE_PERIOD_MS)
            => /\ copilot'.isThinking
               /\ \E i \in DOMAIN calls' : calls'[i] = "onThinkingStart"
        /\ (ev' = "poll" /\ obs' = "grow" /\ LastMarker(CopilotDelta) = "E")
            => ~copilot'.isThinking
        /\ (ev' = "poll" /\ obs' # "grow" /\ ~copilot.isThinking)
            => ~copilot'.isThinking /\ calls' = <<>>
      ]_vars

\* C18, amended: the same, the start callback invoked if the editor window
\* is focused at that poll and no callback invoked if it is not.
C18_MarkersEndToEndFocused ==
    [][ /\ (ev' = "poll" /\ obs' = "grow" /\ LastMarker(CopilotDelta) = "S"
               /\ copilot.startupAge >= STARTUP_GRACE_PERIOD_MS)
            => /\ copilot'.isThinking
               /\ focused => \E i \in DOMAIN calls' : calls'[i] = "onThinkingStart"
               /\ ~focused => calls' = <<>>
        /\ (ev' = "poll" /\ obs' = "grow" /\ LastMarker(CopilotDelta) = "E")
            => ~copilot'.isThinking
        /\ (ev' = "poll" /\ obs' # "grow" /\ ~copilot.isThinking)
            => ~copilot'.isThinking /\ calls' = <<>>
      ]_vars

\* after the grace period one poll has read a start-marker line, a later
\* poll a completion line, and the next poll finds nothing new: Idle, no
\* callback
C18_Witness ==
    /\ ev = "poll" /\ obs = "same" /\ ~copilot.isThinking /\ calls = <<>>
    /\ copilot.startupAge >= STARTUP_GRACE_PERIOD_MS
    /\ logFile = <<"x", "nl", "S", "nl", "E", "nl">>
    /\ handed = <<0, 0, 1, 1, 1, 1>>

\* the chunk a finishing read of Antigravity.log hands to analyzeChunk, when
\* it is the only read in flight
AntiChunk == Bytes(logFile, reads[1].from, StreamEnd(reads[1].to))

\* the invocations of the start callback among cs
StartCalls(cs) == Len(SelectSeq(cs, LAMBDA c : c = "onThinkingStart"))

\* C19: AntigravityDetector, idle with no active PID and no pending intent,
\* processing a chunk of a 'Requesting planner' line followed by a
\* streamGenerateContent request line of PID 123 invokes the start callback
\* exactly once.
C19_StartFiresOnce ==
    [][ (/\ ev' = "readDone" /\ obs' = "read"
         /\ Len(reads) = 1
         /\ anti.activePid = null /\ ~anti.hasPendingUserRequest
         /\ AntiChunk = <<"P", "nl", "R123", "nl">>)
        => StartCalls(calls') = 1
      ]_vars

\* C20: AntigravityDetector with PID 123 active and no pending intent,
\* processing a chunk that is a streamGenerateContent request line of PID 456,
\* invokes the stop callback, and nothing else, and ends with no active PID:
\* 456 is not adopted.
C20_ForeignRequestForcesStop ==
    [][ (/\ ev' = "readDone" /\ obs' = "read"
         /\ Len(reads) = 1
         /\ anti.activePid = <<123>> /\ ~anti.hasPendingUserRequest
         /\ AntiChunk = <<"R456", "nl">>)
        => /\ calls' = <<"onThinkingStop">>
           /\ anti'.activePid = null
      ]_vars

\* PID 123 was adopted and the request line of PID 456 has then been read on
\* its own: the stop callback has been invoked and no PID is active
C20_Witness ==
    /\ ev = "readDone" /\ obs = "read"
    /\ logFile = <<"P", "nl", "R123", "nl", "R456", "nl">>
    /\ handed = <<1, 1, 1, 1, 1, 1>>
    /\ anti.currentSize = 6
    /\ calls = <<"onThinkingStop">>
    /\ anti.activePid = null /\ ~anti.hasPendingUserRequest

\* C21: AntigravityDetector processing a chunk that is one
\* streamGenerateContent request line, either with no pending intent and no
\* active PID or with the line's PID the active one, leaves activePid and
\* hasPendingUserRequest as they were and invokes no callback.
C21_UnrelatedRequestIgnored ==
    [][ (/\ ev' = "readDone" /\ obs' = "read"
         /\ Len(reads) = 1
         /\ AntiChunk \in {<<"R123", "nl">>, <<"R456", "nl">>}
         /\ \/ anti.activePid = null /\ ~anti.hasPendingUserRequest
            \/ anti.activePid = MatchPid(AntiChunk))
        => /\ calls' = <<>>
           /\ anti'.activePid = anti.activePid
           /\ anti'.hasPendingUserRequest = anti.hasPendingUserRequest
      ]_vars

\* PID 123 was adopted and a second request line of PID 123 has then been
\* read on its own: no callback, PID 123 still active
C21_Witness ==
    /\ ev = "readDone" /\ obs = "read"
    /\ logFile = <<"P", "nl", "R123", "nl", "R123", "nl">>
    /\ handed = <<1, 1, 1, 1, 1, 1>>
    /\ anti.currentSize = 6
    /\ calls = <<>>
    /\ anti.activePid = <<123>> /\ ~anti.hasPendingUserRequest

\* C22: when a read of AntigravityDetector ends and every chunk it can have
\* read contains a stop keyword ('PathsToReview' or 'BlockedOnUser'), the
\* stop callback is invoked and activePid is null afterwards, whatever
\* activePid and hasPendingUserRequest were.
C22_StopKeywordForcesStop ==
    [][ (/\ ev' = "readDone" /\ obs' = "read"
         /\ \A k \in DOMAIN reads :
               Includes(Bytes(logFile, reads[k].from, StreamEnd(reads[k].to)), "K"))
        => /\ \E i \in DOMAIN calls' : calls'[i] = "onThinkingStop"
           /\ anti'.activePid = null
      ]_vars

\* a stop-keyword line has been read after content that was never parsed:
\* the stop callback was invoked with no PID adopted from this log
C22_Witness ==
    /\ ev = "readDone" /\ obs = "read"
    /\ logFile = <<"x", "nl", "K", "nl">>
    /\ handed = <<0, 0, 1, 1>>
    /\ calls = <<"onThinkingStop">>
    /\ anti.activePid = null

\* the lines analyzeChunk's loop can meet
AntiLines == {<<>>, <<"P">>, <<"R123">>, <<"R456">>, <<"K">>, <<"x">>}

\* C23: in AntigravityDetector, (1) activePid takes a new value only when a
\* read ends whose chunk has a request line of that PID; (2) wherever a read
\* ends, a line whose processing gives activePid a new value t is a request line
\* of PID t met while hasPendingUserRequest is true, and processing it sets
\* hasPendingUserRequest to false; (3) activePid is null after a chunk with a
\* stop keyword and (4) after a poll whose watchdog finds the log silent for
\* longer than LOG_TIMEOUT_MS.
C23_TokenLifecycle ==
    [][ /\ (anti'.activePid # anti.activePid /\ anti'.activePid # null)
            => /\ ev' = "readDone" /\ obs' = "read"
               /\ \E k \in DOMAIN reads :
                     \E i \in DOMAIN logFile :
                        /\ reads[k].from < i /\ i <= StreamEnd(reads[k].to)
                        /\ MatchPid(<<logFile[i]>>) = anti'.activePid
        /\ ev' = "readDone"
            => \A line \in AntiLines :
                  LET r == AnalyzeLine(AntiRun(anti), line)
                  IN  (r.activePid # anti.activePid /\ r.activePid # null)
                      => /\ MatchPid(line) = r.activePid
                         /\ anti.hasPendingUserRequest
                         /\ ~r.hasPendingUserRequest
        /\ (/\ ev' = "readDone" /\ obs' = "read"
            /\ \A k \in DOMAIN reads :
                  Includes(Bytes(logFile, reads[k].from, StreamEnd(reads[k].to)), "K"))
            => anti'.activePid = null
        /\ (/\ ev' = "poll" /\ obs' \in {"same", "shrink"}
            /\ anti.activePid # null /\ anti.lastLogAge > LOG_TIMEOUT_MS)
            => anti'.activePid = null /\ calls' = <<"onThinkingStop">>
      ]_vars

\* a read has just adopted PID 123 from a request line that followed a
\* pending intent, and the intent is consumed
C23_Witness ==
    /\ ev = "readDone" /\ obs = "read"
    /\ anti.activePid = <<123>> /\ ~anti.hasPendingUserRequest
    /\ calls = <<"onThinkingStart">>
    /\ logFile = <<"P", "nl", "R123", "nl">>
    /\ handed = <<1, 1, 1, 1>>

\* C24: in every reachable state of a CursorDetector started at most once, a
\* read error included, a stop-debounce timer is pending (stopDebounceTimer
\* non-null) only while the detector is Thinking (heartbeatInterval non-null).
C24_DebounceOnlyWhileThinking ==
    (cursor.listeners <= 1 /\ cursor.stopDebounceTimer # null)
        => cursor.heartbeatInterval # null

\* C25: whenever CursorDetector's checkState has read the sentinel file, its
\* observation is Start-class exactly when the content, lower-cased and its
\* control characters stripped, contains 'thinking', and Stop-class otherwise.
C25_ClassifiedBySubstring ==
    (ev \in {"start", "watch"} /\ obs \in {"Start", "Resume", "Stop"})
        => (obs \in {"Start", "Resume"}
              <=> \E i \in DOMAIN stateFile : ToLowerCase(stateFile)[i] = "thinking")

\* C26: a watch poll of CursorDetector that finds the sentinel file absent,
\* and a poll of VSCodeCopilotDetector or AntigravityDetector that finds the
\* log absent, invokes no callback and leaves the heartbeat, the stop
\* debounce, the thinking flag, the active PID, the pending intent and the
\* recorded size as they were; the watch or the poll interval stays armed.
C26_MissingArtifactChangesNothing ==
    [][ /\ (ev' = "watch" /\ stateFile = Absent)
            => /\ calls' = <<>>
               /\ cursor'.heartbeatInterval = cursor.heartbeatInterval
               /\ cursor'.intervals = cursor.intervals
               /\ cursor'.stopDebounceTimer = cursor.stopDebounceTimer
               /\ cursor'.debounces = cursor.debounces
               /\ cursor'.listeners = cursor.listeners
        /\ (ev' = "poll" /\ copilot.pollers # <<>> /\ logFile = Absent)
            => /\ calls' = <<>>
               /\ copilot'.isThinking = copilot.isThinking
               /\ copilot'.currentSize = copilot.currentSize
               /\ copilot'.lastActivityAge = copilot.lastActivityAge
               /\ copilot'.pollers # <<>> /\ ~AnyDue(copilot'.pollers)
        /\ (ev' = "poll" /\ anti.pollers # <<>> /\ logFile = Absent)
            => /\ calls' = <<>>
               /\ anti'.activePid = anti.activePid
               /\ anti'.hasPendingUserRequest = anti.hasPendingUserRequest
               /\ anti'.currentSize = anti.currentSize
               /\ reads' = reads
               /\ anti'.pollers # <<>> /\ ~AnyDue(anti'.pollers)
      ]_vars

\* VSCodeCopilotDetector, Thinking after a start marker it has read, has
\* polled and found the log gone: still Thinking, size kept, no callback
C26_Witness ==
    /\ ev = "poll" /\ obs = "absent" /\ logFile = Absent
    /\ copilot.isThinking /\ copilot.currentSize > 0
    /\ calls = <<>>

\* C27 as stated: a check or poll of any detector in which reading the
\* artifact fails ends normally, with the file watch or the poll interval
\* still armed and the detector not Thinking: no heartbeat in CursorDetector,
\* isThinking false in VSCodeCopilotDetector, no active PID in
\* AntigravityDetector.
C27_FailureEndsNotThinking ==
    [][ /\ (ev' \in {"start", "watch"} /\ cursor'.listeners > 0 /\ obs' = "error")
            => cursor'.heartbeatInterval = null
        /\ (ev' = "poll" /\ copilot.pollers # <<>> /\ obs' = "error")
            => ~copilot'.isThinking /\ copilot'.pollers # <<>>
        /\ (ev' \in {"poll", "readDone"} /\ anti.pollers # <<>> /\ obs' = "error")
            => anti'.activePid = null /\ anti'.pollers # <<>>
      ]_vars

\* C27, amended: such a check or poll ends normally, invokes no callback and
\* leaves the file watch or the poll interval armed; CursorDetector ends it
\* not Thinking (no heartbeat), while VSCodeCopilotDetector keeps isThinking
\* and its recorded size, and AntigravityDetector its active PID, as they
\* were.
C27_FailureKeepsPolling ==
    [][ /\ (ev' \in {"start", "watch"} /\ cursor'.listeners > 0 /\ obs' = "error")
            => /\ calls' = <<>>
               /\ cursor'.heartbeatInterval = null /\ cursor'.intervals = <<>>
               /\ cursor'.listeners >= cursor.listeners
        /\ (ev' = "poll" /\ copilot.pollers # <<>> /\ obs' = "error")
            => /\ calls' = <<>>
               /\ copilot'.isThinking = copilot.isThinking
               /\ copilot'.currentSize = copilot.currentSize
               /\ copilot'.pollers # <<>> /\ ~AnyDue(copilot'.pollers)
        /\ (ev' \in {"poll", "readDone"} /\ anti.pollers # <<>> /\ obs' = "error")
            => /\ calls' = <<>>
               /\ anti'.activePid = anti.activePid
               /\ anti'.pollers # <<>>
               /\ ev' = "poll" => ~AnyDue(anti'.pollers)
      ]_vars

\* a poll of VSCodeCopilotDetector has failed while it was Thinking: it is
\* Thinking still, its interval armed, no callback invoked
C27_Witness ==
    /\ ev = "poll" /\ obs = "error"
    /\ copilot.isThinking /\ copilot.pollers # <<>> /\ ~AnyDue(copilot.pollers)
    /\ calls = <<>>

\* the detector in use has found its log: a poll of VSCodeCopilotDetector has
\* seen it exist, AntigravityDetector holds its path
Located ==
    \/ copilot.pollers # <<>> /\ seenLog
    \/ anti.pollers # <<>> /\ anti.currentLogPath # null

\* C28: a log-tail detector that polls and does not yet hold its log looks
\* for it at every poll: if polls go through again and again, then whenever
\* the log exists and the detector is polling, the detector comes to find
\* the log, unless the log is removed first.
C28_EventuallyLocates ==
    ([]<>(ev = "poll" /\ obs # "error"))
        => (((copilot.pollers # <<>> \/ anti.pollers # <<>>) /\ logFile # Absent)
              ~> (Located \/ logFile = Absent))

\* AntigravityDetector, started while there was no log, has latched onto the
\* log created since
C28_Witness ==
    /\ ev = "poll" /\ obs = "latch"
    /\ anti.currentLogPath # null
    /\ logFile = <<>>

\* C29: in VSCodeCopilotDetector, a poll that parses new lines and ends
\* Thinking has extended lastActivityTime to the time of that poll; a poll
\* that parses new lines ends a Thinking state only at a completion marker;
\* and the silence watchdog forces Idle only in a poll that found nothing new
\* when the last line parsed while Thinking is older than SILENCE_TIMEOUT_MS.
C29_LinesExtendWatermark ==
    [][ /\ (ev' = "poll" /\ obs' = "grow" /\ copilot'.isThinking)
            => copilot'.lastActivityAge = 0
        /\ (ev' = "poll" /\ obs' = "grow" /\ copilot.isThinking /\ ~copilot'.isThinking)
            => Includes(CopilotDelta, "E")
        /\ (ev' = "poll" /\ obs' = "same" /\ copilot.isThinking /\ ~copilot'.isThinking)
            => copilot.lastActivityAge > SILENCE_TIMEOUT_MS
      ]_vars

\* Thinking since the start marker, the detector has parsed a line without a
\* marker: the watermark is the time of that poll
C29_Witness ==
    /\ ev = "poll" /\ obs = "grow"
    /\ copilot.isThinking /\ copilot.lastActivityAge = 0
    /\ logFile = <<"x", "nl", "S", "nl", "x", "nl">>
    /\ handed = <<0, 0, 1, 1, 1, 1>>

\* C30 as stated: in extension.ts, isThinking changes and activityTimer is
\* assigned only in the callback of the fallback timer and in the callback
\* that receives a detector's start pulse.
C30_OnlyTimerAndPulsesMutate ==
    [][ (isThinking' # isThinking \/ (ev' # "tick" /\ activityTimer' # activityTimer))
        => ev' \in {"activityTimeout", "onThinkingStart"}
      ]_vars

\* C30, amended: isThinking changes and activityTimer is assigned only in the
\* callback of the fallback timer, in the callback that receives a
\* detector's start pulse, and in the commands start, pause and toggleAI
\* (after its await); the stop callback and the first half of toggleAI
\* leave both alone.
C30_TimerPulsesAndCommandsMutate ==
    [][ (isThinking' # isThinking \/ (ev' # "tick" /\ activityTimer' # activityTimer))
        => ev' \in {"activityTimeout", "onThinkingStart",
                    "cmdStart", "cmdPause", "toggleAIResume"}
      ]_vars

\* the pause command has ended a thinking state whose fallback timer was
\* pending: isThinking is false, the timer gone, the game told to stop
C30_Witness ==
    /\ ev = "cmdPause" /\ calls = <<"doom.stop">>
    /\ ~isThinking /\ activityTimer = null /\ timeouts = <<>>
    /\ sincePulse < ACTIVITY_TIMEOUT_MS

\* C31: once QuotaMonitor.stop() has returned, and until start() is called
\* again, no poll runs: not when stop() was called while start() was awaiting
\* its discovery, and not when start() had been called more than once.
C31_NoPollAfterStop ==
    [][ev' = "quotaPoll" => ~quotaStopped]_vars

\* C32: with a detector that may fall silent, when from some point on no
\* detector callback and no command arrives, the aggregator ends up Ready
\* and stays there, also when isThinking was set by the start command.
C32_EventuallyReady ==
    ~steady =>
        ((<>[](ev \notin {"onThinkingStart", "onThinkingStop", "cmdStart",
                          "cmdPause", "toggleAI"}))
            => <>[](~isThinking))

\* C33: a pulse received while AI integration is disabled sets isThinking
\* and re-arms the fallback timer but issues no command to the
\* DoomController; a toggleAI that finds AI integration disabled and
\* isThinking true when its update has settled issues a pause, clears
\* isThinking and cancels the fallback timer.
C33_DisabledNeverStarts ==
    [][/\ (ev' = "onThinkingStart" /\ ~isAIEnabled)
            => /\ calls' = <<>>
               /\ isThinking'
               /\ activityTimer' = Armed(ACTIVITY_TIMEOUT_MS)
               /\ timeouts' = <<ACTIVITY_TIMEOUT_MS>>
       /\ (ev' = "toggleAIResume" /\ ~isAIEnabled /\ isThinking)
            => /\ calls' = <<"doom.stop">>
               /\ ~isThinking'
               /\ activityTimer' = null
               /\ timeouts' = <<>>]_vars

\* a pulse has arrived with AI integration disabled and the aggregator Ready
C33_Witness ==
    /\ ev = "onThinkingStart"
    /\ ~isAIEnabled
    /\ isThinking
    /\ calls = <<>>
    /\ activityTimer = Armed(ACTIVITY_TIMEOUT_MS)

\* C34: whenever isThinking is false, the last call made on the
\* DoomController, if there was one, is stop (the pause); the last call is
\* start only while isThinking is true.
C34_ReadyMeansPaused ==
    ~isThinking => lastCommand \in {"none", "doom.stop"}

\* AI integration has been switched back on, the toggle has settled with the
\* aggregator Ready after an earlier pause
C34_Witness ==
    /\ ev = "toggleAIResume"
    /\ isAIEnabled
    /\ ~isThinking
    /\ lastCommand = "doom.stop"

\* C35: after a fireStop, a request line's PID is adopted as the active one
\* only if a 'Requesting planner' line has been processed after that
\* fireStop: no read adopts a PID on an intent left pending from before it.
C35_NoStaleIntentAdopted ==
    ~intent.stale

\* C36: the text of a read, processed by analyzeChunk as one delta, leaves
\* the same activePid and hasPendingUserRequest as the same text processed
\* as two consecutive deltas split after one of its line feeds.
C36_SplitAtLineBoundary ==
    [][ev' = "readDone" /\ obs' = "read" =>
        \A k \in DOMAIN reads :
            LET chunk == Bytes(logFile, reads[k].from, StreamEnd(reads[k].to))
                r == AntiRun(anti)
                whole == AnalyzeChunk(r, chunk)
            IN  \A b \in 1..(Len(chunk) - 1) :
                    chunk[b] = "nl" =>
                        LET split == AnalyzeChunk(AnalyzeChunk(r, SubSeq(chunk, 1, b)),
                                                  SubSeq(chunk, b + 1, Len(chunk)))
                        IN  /\ split.activePid = whole.activePid
                            /\ split.hasPendingUserRequest
                                   = whole.hasPendingUserRequest]_vars

\* C37: a start-marker line is detected also when a poll has read the log
\* between the two writes of the line: the poll that reads the rest of the
\* line, the grace period over and the detector Idle, leaves it Thinking.
C37_SplitMarkerDetected ==
    [][(/\ ev' = "poll" /\ obs' = "grow"
        /\ copilot.currentSize > 0
        /\ logFile[copilot.currentSize] = Halves.S[1]
        /\ handed[copilot.currentSize] = 1
        /\ CopilotDelta = <<Halves.S[2], "nl">>
        /\ copilot.startupAge >= STARTUP_GRACE_PERIOD_MS
        /\ ~copilot.isThinking)
            => copilot'.isThinking]_vars

\* C38: when stop() of a log-tail detector returns, none of the poll
\* intervals the detector has created is still live, so that checkLogs does
\* not run again: also when start() was called twice before the stop().
C38_StopEndsAllPolls ==
    [][ev' = "stop" => (copilot'.pollers = <<>> /\ anti'.pollers = <<>>)]_vars

\* C39: in CursorDetector, whatever the file contents observed, the read
\* errors and the number of start() calls, at most one heartbeat interval
\* and at most one stop-debounce timer are live; and a Stop-class
\* observation made while a debounce timer is pending arms no second timer
\* and leaves the pending one with the time it had left.
C39_OneHeartbeatOneDebounce ==
    [][/\ Len(cursor'.intervals) <= 1
       /\ Len(cursor'.debounces) <= 1
       /\ (ev' \in {"start", "watch"} /\ obs' = "Stop" /\ cursor.stopDebounceTimer # null)
            => /\ cursor'.stopDebounceTimer = cursor.stopDebounceTimer
               /\ cursor'.debounces = cursor.debounces]_vars

\* two listeners have each seen a Stop-class content with the debounce
\* pending since an earlier observation
C39_Witness ==
    /\ ev = "watch" /\ obs = "Stop"
    /\ cursor.listeners = 2
    /\ cursor.heartbeatInterval # null
    /\ cursor.stopDebounceTimer # null
    /\ cursor.stopDebounceTimer # Armed(STOP_DEBOUNCE_MS)
    /\ Len(cursor.debounces) = 1

\* C40: VSCodeCopilotDetector invokes the start callback in no handler that
\* runs while the editor window is unfocused; a poll that reads a start
\* marker while unfocused, the grace period over, still leaves the detector
\* Thinking; and a poll that goes through with the window focused and
\* leaves the detector Thinking invokes the start callback.
C40_FocusGatesStart ==
    [][ /\ ~focused => StartCalls(calls') = 0
        /\ (ev' = "poll" /\ obs' = "grow" /\ ~focused
               /\ LastMarker(CopilotDelta) = "S"
               /\ copilot.startupAge >= STARTUP_GRACE_PERIOD_MS)
            => copilot'.isThinking
        /\ (ev' = "poll" /\ obs' \in {"grow", "same"} /\ focused
               /\ copilot'.isThinking)
            => StartCalls(calls') >= 1
      ]_vars

\* a poll has read a start marker with the window unfocused: Thinking, and
\* no callback
C40_Witness ==
    /\ ev = "poll" /\ obs = "grow"
    /\ ~focused
    /\ copilot.isThinking
    /\ copilot.lastActivityAge = 0
    /\ calls = <<>>

====
